---- MODULE Spec2Model ----
(***************************************************************************)
(* Model of the porydex extraction engine (src/porydex/parse/__init__.py), *)
(* the extract command (src/porydex.py) and the table parsers that consume *)
(* the engine.                                                             *)
(*                                                                         *)
(* Python values are modelled as follows.  A list is a sequence.  The      *)
(* result of a call is a record [kind |-> "return", value |-> v] or        *)
(* [kind |-> "raise", exc |-> name of the exception class].  The pickle    *)
(* directory is a function from the names of the files it holds to their   *)
(* unpickled contents.                                                     *)
(***************************************************************************)
EXTENDS Integers, Sequences, FiniteSets, TLC

VARIABLES
    cache,    \* PICKLE_PATH: file name (stem) -> pickled Declaration Sequence
    before,   \* cache as it was when the last operation started
    call,     \* the last operation and its arguments
    ret,      \* what the last operation returned or raised
    parsed,   \* the parse_file invocations the last operation made, in order
    pairs,    \* the (minimal, full) pairs the last operation zipped, in order
    run       \* the extract run in progress: its flags and its position

vars == <<cache, before, call, ret, parsed, pairs, run>>

(***************************************************************************)
(* Bounds                                                                  *)
(***************************************************************************)
MaxDecls == 1      \* longest Declaration Sequence the toolchain yields

Return(v) == [kind |-> "return", value |-> v]
Raise(e) == [kind |-> "raise", exc |-> e]
NoResult == [kind |-> "none"]

(***************************************************************************)
(* Source Units.  A path is its parent directory, the stem of its last     *)
(* component and the suffix of its last component.                         *)
(***************************************************************************)
Path(parent, stem, suffix) == [parent |-> parent, stem |-> stem, suffix |-> suffix]

Files ==
    { Path("src/data", "moves_info", ".h"),
      Path("custom_headers", "moves_info", ".inc"),
      Path("src/data/pokemon", "form_change_tables", ".h") }

Stems == { f.stem : f \in Files }

Includes == { <<>>, <<"-include", "constants/moves.h">> }

\* Declarations of the loader model are represented by their names.
DeclNames == { "gMovesInfo", "sFooFormChangeTable" }

RECURSIVE SeqsUpTo(_, _)
SeqsUpTo(S, n) ==
    IF n = 0 THEN { <<>> }
    ELSE LET shorter == SeqsUpTo(S, n - 1)
         IN  shorter \cup { Append(s, x) : s \in shorter, x \in S }

\* What one parse_file invocation can produce: a Declaration Sequence, or a
\* failure of the external preprocessor/parser.
ToolOutputs == SeqsUpTo(DeclNames, MaxDecls)
Fail == <<"ToolchainFailure">>
ToolOutcomes == ToolOutputs \cup { Fail }

(***************************************************************************)
(* Translation Cache                                                       *)
(***************************************************************************)
PyNone == [type |-> "NoneType"]
PyList(s) == [type |-> "list", items |-> s]

\* Python truth value of an Optional[list]
Truthy(v) == v.type = "list" /\ v.items # <<>>

_pickle_target(fname) == fname.stem

_load_pickled(c, fname) ==
    LET target == _pickle_target(fname)
    IN  IF target \in DOMAIN c THEN PyList(c[target]) ELSE PyNone

\* the directory is written afresh: the other entries are lost
_dump_pickled_fresh(c, fname, exts) ==
    [t \in { _pickle_target(fname) } |-> exts]

_dump_pickled(c, fname, exts) ==
    LET target == _pickle_target(fname)
    IN  [t \in (DOMAIN c) \cup {target} |-> IF t = target THEN exts ELSE c[t]]

\* cpp_args of the two preprocessing configurations
FullArgs(extra_includes) ==
    <<"PREPROCESS_LIBC", "include_dirs", "GLOBAL_PREPROC", "CONFIG_INCLUDES">>
        \o extra_includes
MinimalArgs(extra_includes) ==
    <<"PREPROCESS_LIBC", "include_dirs", "-DTRUE=1", "-DFALSE=0", "-Du16=short",
      "-include", "config/species_enabled.h">> \o extra_includes

Invocation(fname, args, out) ==
    [fname |-> fname, cpp_args |-> args, ok |-> out # Fail]

(***************************************************************************)
(* load_data: the effect of one call on cache c, where out is what the     *)
(* toolchain yields if it is invoked.                                      *)
(***************************************************************************)
\* load_data with the toolchain's failure caught and an empty result cached
load_data_swallow(c, fname, extra_includes, out) ==
    LET exts == _load_pickled(c, fname)
        inv  == Invocation(fname, FullArgs(extra_includes), out)
        got  == IF out = Fail THEN <<>> ELSE out
    IN  IF Truthy(exts)
        THEN [ret |-> Return(exts.items), cache |-> c, parsed |-> <<>>]
        ELSE [ret |-> Return(got), cache |-> _dump_pickled(c, fname, got),
              parsed |-> <<inv>>]

load_data(c, fname, extra_includes, out) ==
    LET exts == _load_pickled(c, fname)
        inv  == Invocation(fname, FullArgs(extra_includes), out)
    IN  IF Truthy(exts)
        THEN [ret |-> Return(exts.items), cache |-> c, parsed |-> <<>>]
        ELSE IF out = Fail
        THEN [ret |-> Raise("ToolchainFailure"), cache |-> c, parsed |-> <<inv>>]
        ELSE [ret |-> Return(out), cache |-> _dump_pickled(c, fname, out),
              parsed |-> <<inv>>]

\* load_table_set whose full parse is not written to the cache either
load_table_set_never_dumped(c, fname, extra_includes, minimal_preprocess, outMin, outFull) ==
    LET invMin  == Invocation(fname, MinimalArgs(extra_includes), outMin)
        invFull == Invocation(fname, FullArgs(extra_includes), outFull)
        first   == IF minimal_preprocess THEN <<invMin>> ELSE <<>>
        exts    == IF minimal_preprocess THEN PyList(outMin)
                   ELSE _load_pickled(c, fname)
    IN  IF minimal_preprocess /\ outMin = Fail
        THEN [ret |-> Raise("ToolchainFailure"), cache |-> c, parsed |-> first]
        ELSE IF Truthy(exts)
        THEN [ret |-> Return(exts.items), cache |-> c, parsed |-> first]
        ELSE IF outFull = Fail
        THEN [ret |-> Raise("ToolchainFailure"), cache |-> c,
              parsed |-> Append(first, invFull)]
        ELSE [ret |-> Return(outFull), cache |-> c,
              parsed |-> Append(first, invFull)]

(***************************************************************************)
(* load_table_set: outMin is what the minimal parse yields if invoked,     *)
(* outFull what the full parse yields if invoked.                          *)
(***************************************************************************)
load_table_set(c, fname, extra_includes, minimal_preprocess, outMin, outFull) ==
    LET invMin  == Invocation(fname, MinimalArgs(extra_includes), outMin)
        invFull == Invocation(fname, FullArgs(extra_includes), outFull)
        first   == IF minimal_preprocess THEN <<invMin>> ELSE <<>>
        exts    == IF minimal_preprocess THEN PyList(outMin)
                   ELSE _load_pickled(c, fname)
    IN  IF minimal_preprocess /\ outMin = Fail
        THEN [ret |-> Raise("ToolchainFailure"), cache |-> c, parsed |-> first]
        ELSE IF Truthy(exts)
        THEN [ret |-> Return(exts.items), cache |-> c, parsed |-> first]
        ELSE IF outFull = Fail
        THEN [ret |-> Raise("ToolchainFailure"), cache |-> c,
              parsed |-> Append(first, invFull)]
        ELSE [ret |-> Return(outFull), cache |-> _dump_pickled(c, fname, outFull),
              parsed |-> Append(first, invFull)]

\* load_truncated: the initializer list of the last declaration.  A declaration
\* of this model is its name, so the last declaration stands for its list.
load_truncated(c, fname, extra_includes, out) ==
    LET r == load_data(c, fname, extra_includes, out)
    IN  IF r.ret.kind = "raise" THEN r
        ELSE IF r.ret.value = <<>> THEN [r EXCEPT !.ret = Raise("IndexError")]
        ELSE [r EXCEPT !.ret = Return(r.ret.value[Len(r.ret.value)])]

(***************************************************************************)
(* extract, lines 90-92: the reload control                                *)
(***************************************************************************)
EmptyDir == [t \in {} |-> <<>>]

\* the reload flag ignored
reload_cache_ignored(c, reload) == c

reload_cache(c, reload) ==
    IF reload THEN EmptyDir ELSE c

NoRun == [active |-> FALSE, reload |-> FALSE, command |-> "none", pc |-> 0,
          loaded |-> {}, deleted |-> {}]

(***************************************************************************)
(* Actions of the engine: any caller, any Source Unit                      *)
(***************************************************************************)
Apply(op, eff) ==
    /\ before' = cache
    /\ cache' = eff.cache
    /\ call' = op
    /\ ret' = eff.ret
    /\ parsed' = eff.parsed
    /\ pairs' = <<>>

LoadCall(op, fname, inc, minimal) ==
    [op |-> op, fname |-> fname, extra_includes |-> inc, minimal |-> minimal,
     first |-> _pickle_target(fname) \notin run.loaded]

LoadData ==
    \E fname \in Files, inc \in Includes, out \in ToolOutcomes :
        /\ Apply(LoadCall("load_data", fname, inc, FALSE),
                 load_data(cache, fname, inc, out))
        /\ UNCHANGED run

LoadTableSet ==
    \E fname \in Files, inc \in Includes, minimal \in BOOLEAN, outFull \in ToolOutcomes :
    \E outMin \in (IF minimal THEN ToolOutcomes ELSE { Fail }) :
        /\ Apply(LoadCall("load_table_set", fname, inc, minimal),
                 load_table_set(cache, fname, inc, minimal, outMin, outFull))
        /\ UNCHANGED run

Reload ==
    /\ Apply([op |-> "extract", reload |-> TRUE, command |-> "none"],
             [ret |-> Return(<<>>), cache |-> reload_cache(cache, TRUE),
              parsed |-> <<>>])
    /\ UNCHANGED run

Init ==
    /\ cache = EmptyDir
    /\ before = EmptyDir
    /\ call = [op |-> "none"]
    /\ ret = NoResult
    /\ parsed = <<>>
    /\ pairs = <<>>
    /\ run = NoRun

Next == LoadData \/ LoadTableSet \/ Reload

Spec == Init /\ [][Next]_vars

(***************************************************************************)
(* The extract command: one process run.  extract deletes the cache when   *)
(* asked to, then calls the table parsers in a fixed order; each parser    *)
(* loads its Source Unit through the engine.  An exception ends the run.   *)
(***************************************************************************)
MaxRunLoads == 5    \* loads of one run that are explored

Load(op, fname, inc, minimal) ==
    [op |-> op, fname |-> fname, extra_includes |-> inc, minimal |-> minimal]

ExtractProgram(command) ==
    IF command = "trainers"
    THEN << Load("load_table_set", Path("src", "data", ""),
                 <<"-include", "constants/trainers.h">>, FALSE) >>
    ELSE << Load("load_truncated", Path("src/data", "moves_info", ".h"),
                 <<"-include", "constants/moves.h">>, FALSE),
            Load("load_data", Path("src/data", "abilities", ".h"),
                 <<"-include", "constants/abilities.h">>, FALSE),
            Load("load_truncated", Path("src/data", "items", ".h"),
                 <<"-include", "constants/items.h">>, FALSE),
            Load("load_table_set", Path("src/data/pokemon", "form_change_tables", ".h"),
                 <<"-include", "constants/form_change_types.h">>, TRUE),
            Load("load_table_set", Path("src/data/pokemon", "form_change_tables", ".h"),
                 <<"-include", "constants/form_change_types.h">>, TRUE),
            Load("load_data", Path("src/data/region_map", "region_map_entries", ".h"),
                 <<"-include", "constants/abilities.h">>, FALSE),
            Load("load_data", Path("src/data/pokemon", "level_up_learnsets", ".h"),
                 <<"-include", "constants/moves.h">>, FALSE),
            Load("load_data", Path("src/data/pokemon", "teachable_learnsets", ".h"),
                 <<"-include", "constants/moves.h">>, FALSE),
            Load("load_table_set", Path("src/data", "trainer_parties", ".h"),
                 <<"-include", "constants/trainers.h">>, FALSE) >>

\* The toolchain outcomes of a run: the classes the loaders tell apart
RunOutcomes == { <<>>, <<"gMovesInfo">>, Fail }

Effect(l, c, outMin, outFull) ==
    CASE l.op = "load_data" -> load_data(c, l.fname, l.extra_includes, outFull)
      [] l.op = "load_truncated" -> load_truncated(c, l.fname, l.extra_includes, outFull)
      [] l.op = "load_table_set" ->
            load_table_set(c, l.fname, l.extra_includes, l.minimal, outMin, outFull)

extract ==
    \E reload \in BOOLEAN, command \in { "trainers", "all" } :
        /\ ~run.active
        /\ Apply([op |-> "extract", reload |-> reload, command |-> command],
                 [ret |-> Return(<<>>), cache |-> reload_cache(cache, reload),
                  parsed |-> <<>>])
        /\ run' = [active |-> TRUE, reload |-> reload, command |-> command,
                   pc |-> 1, loaded |-> {},
                   deleted |-> (DOMAIN cache) \ DOMAIN reload_cache(cache, reload)]

ExtractLoad ==
    /\ run.active
    /\ run.pc <= Len(ExtractProgram(run.command))
    /\ run.pc <= MaxRunLoads
    /\ LET l == ExtractProgram(run.command)[run.pc]
       IN  \E outFull \in RunOutcomes :
           \E outMin \in (IF l.minimal THEN RunOutcomes ELSE { Fail }) :
               LET eff == Effect(l, cache, outMin, outFull)
               IN  /\ Apply(LoadCall(l.op, l.fname, l.extra_includes, l.minimal), eff)
                   /\ run' = IF eff.ret.kind = "raise"
                             THEN [run EXCEPT !.active = FALSE]
                             ELSE [run EXCEPT !.pc = @ + 1,
                                       !.loaded = IF l.minimal THEN @
                                                  ELSE @ \cup {_pickle_target(l.fname)}]

\* The run ends: extract returned, or a table parser raised.
ExtractEnd ==
    /\ run.active
    /\ run' = [run EXCEPT !.active = FALSE]
    /\ UNCHANGED <<cache, before, call, ret, parsed, pairs>>

NextExtract == extract \/ ExtractLoad \/ ExtractEnd

SpecExtract == Init /\ [][NextExtract]_vars

(***************************************************************************)
(* Declaration Boundary Scanner: load_data_and_start.  A pattern is None   *)
(* or a compiled pattern, modelled by the set of names it matches.         *)
(***************************************************************************)
MaxScanLen == 3    \* longest Declaration Sequence that is scanned

NoName == ""       \* Decl.name of a declaration without a name (falsy)
ScanNames == { "fooData", "sBarTable", "sBazTable", NoName }
Pattern(names) == [type |-> "Pattern", matches |-> names]
Patterns == { PyNone, Pattern({ "sBarTable", "sBazTable" }) }

match(pattern, name) == name \in pattern.matches

\* all_data[i] for a negative Python index i
NegIndex(all_data, i) == all_data[Len(all_data) + i + 1]

\* the loop with `start = i` in place of `start = i + 1`
RECURSIVE ScanFrom_keep_index(_, _, _)
ScanFrom_keep_index(all_data, pattern, i) ==
    LET end == Len(all_data)
    IN  IF i <= -end THEN 0
        ELSE IF NegIndex(all_data, i) = NoName
                \/ ~match(pattern, NegIndex(all_data, i))
        THEN i
        ELSE ScanFrom_keep_index(all_data, pattern, i - 1)

\* the loop `for i in range(-1, -end, -1)` from index i on
RECURSIVE ScanFrom(_, _, _)
ScanFrom(all_data, pattern, i) ==
    LET end == Len(all_data)
    IN  IF i <= -end THEN 0
        ELSE IF NegIndex(all_data, i) = NoName
                \/ ~match(pattern, NegIndex(all_data, i))
        THEN i + 1
        ELSE ScanFrom(all_data, pattern, i - 1)

load_data_and_start(c, fname, pattern, extra_includes, out) ==
    LET r == load_data(c, fname, extra_includes, out)
    IN  IF r.ret.kind = "raise" THEN r
        ELSE LET all_data == r.ret.value
                 start == IF pattern.type = "Pattern"
                          THEN ScanFrom(all_data, pattern, -1)
                          ELSE 0
             IN  [r EXCEPT !.ret = Return(<<all_data, start>>)]

\* data[start:]
SliceFrom(data, start) ==
    LET n == Len(data)
        lo == IF start < 0 THEN (IF n + start < 0 THEN 0 ELSE n + start)
              ELSE (IF start > n THEN n ELSE start)
    IN  SubSeq(data, lo + 1, n)

ScanFile == Path("src/data/pokemon", "level_up_learnsets", ".h")
ScanOutputs == SeqsUpTo(ScanNames, MaxScanLen)

LoadDataAndStart ==
    \E pattern \in Patterns, out \in ScanOutputs \cup { Fail } :
        /\ Apply([op |-> "load_data_and_start", fname |-> ScanFile,
                  pattern |-> pattern, extra_includes |-> <<>>, minimal |-> FALSE],
                 load_data_and_start(cache, ScanFile, pattern, <<>>, out))
        /\ UNCHANGED run

\* The cache directory as earlier runs left it: empty, or holding the entry of
\* the scanned file.
InitScan ==
    /\ cache \in { EmptyDir } \cup
                 { [t \in { _pickle_target(ScanFile) } |-> d] : d \in ScanOutputs }
    /\ before = cache
    /\ call = [op |-> "none"]
    /\ ret = NoResult
    /\ parsed = <<>>
    /\ pairs = <<>>
    /\ run = NoRun

NextScan == LoadDataAndStart

SpecScan == InitScan /\ [][NextScan]_vars

(***************************************************************************)
(* The four load operations and the reload over the Source Units of Files  *)
(***************************************************************************)
LoadTruncated ==
    \E fname \in Files, inc \in Includes, out \in ToolOutcomes :
        /\ Apply(LoadCall("load_truncated", fname, inc, FALSE),
                 load_truncated(cache, fname, inc, out))
        /\ UNCHANGED run

LoadDataAndStartOf ==
    \E fname \in Files, pattern \in Patterns, inc \in Includes, out \in ToolOutcomes :
        /\ Apply([op |-> "load_data_and_start", fname |-> fname,
                  pattern |-> pattern, extra_includes |-> inc, minimal |-> FALSE],
                 load_data_and_start(cache, fname, pattern, inc, out))
        /\ UNCHANGED run

NextCache ==
    LoadData \/ LoadTableSet \/ LoadTruncated \/ LoadDataAndStartOf \/ Reload

SpecCache == Init /\ [][NextCache]_vars

\* the position (counted from 1) of the rightmost declaration that has a name
\* the pattern does not match; 0 if there is none
LastBreak(data, pattern) ==
    LET breaks == { p \in 1..Len(data) :
                      data[p] # NoName /\ ~match(pattern, data[p]) }
    IN  IF breaks = {} THEN 0 ELSE CHOOSE p \in breaks : \A q \in breaks : q <= p

\* C3: load_data_and_start returns as start the index one past the rightmost
\* declaration that breaks the match, wherever that declaration is, so that
\* data[start:] is exactly the trailing block of matching declarations.
C3_BoundaryIndex ==
    (call.op = "load_data_and_start" /\ ret.kind = "return"
        /\ call.pattern.type = "Pattern")
        => LET data == ret.value[1]
               start == ret.value[2]
               expected == LastBreak(data, call.pattern)
           IN  /\ start = expected
               /\ SliceFrom(data, start) = SubSeq(data, expected + 1, Len(data))

\* the walk as the loop indexes it, ended only by a declaration that has a
\* name the pattern does not match
RECURSIVE NamedBreakFrom(_, _, _)
NamedBreakFrom(all_data, pattern, i) ==
    IF i <= -Len(all_data) THEN 0
    ELSE IF NegIndex(all_data, i) # NoName
            /\ ~match(pattern, NegIndex(all_data, i))
    THEN i + 1
    ELSE NamedBreakFrom(all_data, pattern, i - 1)

\* C14: a declaration without a name does not end the trailing block: the
\* walk of load_data_and_start goes on past it and ends only at a declaration
\* that has a name which the pattern does not match.
C14_UnnamedDoesNotBreak ==
    (call.op = "load_data_and_start" /\ ret.kind = "return"
        /\ call.pattern.type = "Pattern")
        => ret.value[2] = NamedBreakFrom(ret.value[1], call.pattern, -1)

\* the last declaration has a name that the pattern does not match
LastBreaks(data, pattern) ==
    /\ data # <<>>
    /\ data[Len(data)] # NoName
    /\ ~match(pattern, data[Len(data)])

\* C15: load_data_and_start returns start 0 when no pattern is supplied, and
\* when the last declaration itself breaks the match.
C15_DefaultStart ==
    (call.op = "load_data_and_start" /\ ret.kind = "return")
        => /\ call.pattern.type = "NoneType" => ret.value[2] = 0
           /\ (call.pattern.type = "Pattern"
               /\ LastBreaks(ret.value[1], call.pattern))
                 => ret.value[2] = 0

\* a scan of two or more declarations whose last one breaks the match
C15_Witness ==
    /\ call.op = "load_data_and_start" /\ ret.kind = "return"
    /\ call.pattern.type = "Pattern"
    /\ Len(ret.value[1]) >= 2
    /\ LastBreaks(ret.value[1], call.pattern)
    /\ ret.value[2] = 0

(***************************************************************************)
(* Translation Cache claims                                                *)
(***************************************************************************)
IsLoad(c) == c.op \in { "load_data", "load_truncated", "load_table_set" }
IsFullLoad(c) == IsLoad(c) /\ ~c.minimal
Target == _pickle_target(call.fname)

\* C1: a load_data call for a file whose stem has a cache entry, whatever the
\* entry holds, returns exactly the cached sequence, invokes no toolchain and
\* leaves the cache as it was.
C1_CacheHit ==
    (call.op = "load_data" /\ Target \in DOMAIN before)
        => /\ ret = Return(before[Target])
           /\ parsed = <<>>
           /\ cache = before

\* C6: a load_table_set call with minimal_preprocess=True leaves the cache
\* directory exactly as it was, whatever the minimal parse yields.
C6_MinimalBypassesCache ==
    (call.op = "load_table_set" /\ call.minimal) => cache = before

\* C7: after a full-mode load of a Source Unit has returned, a full-mode load
\* of a Source Unit with the same stem returns the stored sequence and invokes
\* no toolchain; a full-mode load touches no entry of another stem.
C7_StemOnlyKey ==
    [][ /\ ( /\ IsFullLoad(call) /\ ret.kind = "return"
             /\ IsFullLoad(call')
             /\ _pickle_target(call'.fname) = _pickle_target(call.fname) )
           => (ret' = Return(ret.value) /\ parsed' = <<>>)
        /\ IsFullLoad(call')
           => \A t \in (DOMAIN cache) \ { _pickle_target(call'.fname) } :
                 t \in DOMAIN cache' /\ cache'[t] = cache[t]
      ]_vars

\* C9: when a toolchain invocation of load_data or load_table_set fails, the
\* call raises the failure, the failed invocation is the last one it makes,
\* and the cache holds exactly what it held before the call.
C9_ToolchainFailureFatal ==
    (IsLoad(call) /\ \E i \in 1..Len(parsed) : ~parsed[i].ok)
        => /\ ret = Raise("ToolchainFailure")
           /\ ~parsed[Len(parsed)].ok
           /\ \A i \in 1..(Len(parsed) - 1) : parsed[i].ok
           /\ cache = before

\* a minimal parse came back empty, the full parse then failed, and the cache
\* held entries
C9_Witness ==
    /\ call.op = "load_table_set" /\ call.minimal
    /\ Len(parsed) = 2 /\ parsed[1].ok /\ ~parsed[2].ok
    /\ ret.kind = "raise"
    /\ DOMAIN before # {}

\* C8: in a run started with the reload flag every cache entry is deleted before
\* the first load, so the first full-mode load of a stem in that run invokes the
\* toolchain and, when it returns, has re-created the entry; in a run started
\* without the flag no entry is deleted.
C8_ReloadControl ==
    /\ (call.op = "extract" /\ call.reload) => cache = EmptyDir
    /\ (call.op = "extract" /\ ~call.reload) => cache = before
    /\ (IsFullLoad(call) /\ call.first /\ run.reload)
          => /\ Len(parsed) = 1
             /\ parsed[1].cpp_args = FullArgs(call.extra_includes)
             /\ ret.kind = "return"
                   => (Target \in DOMAIN cache /\ parsed[1].ok)
    /\ (IsLoad(call) /\ ~run.reload) => DOMAIN before \subseteq DOMAIN cache

\* a reload run deleted the entry of a stem and the first full-mode load of
\* that stem re-created it
C8_Witness ==
    /\ IsFullLoad(call) /\ call.first /\ run.reload
    /\ Target \in run.deleted
    /\ Len(parsed) = 1 /\ ret.kind = "return"
    /\ Target \in DOMAIN cache

\* a call of one of the four load operations
IsAnyLoad(c) ==
    c.op \in { "load_data", "load_truncated", "load_table_set",
               "load_data_and_start" }

\* C25: a load operation deletes no cache entry and neither creates, changes
\* nor deletes the entry of a stem other than the one it loads; the reload
\* removes every entry.
C25_BulkRemovalOnly ==
    /\ IsAnyLoad(call)
          => \A t \in DOMAIN before \cup DOMAIN cache :
                 /\ t \in DOMAIN before => t \in DOMAIN cache
                 /\ t # _pickle_target(call.fname)
                       => (t \in DOMAIN before /\ cache[t] = before[t])
    /\ (call.op = "extract" /\ call.reload) => DOMAIN cache = {}

\* a load created the entry of its stem beside the entry of another stem
C25_Witness ==
    /\ IsAnyLoad(call)
    /\ DOMAIN before # {}
    /\ _pickle_target(call.fname) \notin DOMAIN before
    /\ _pickle_target(call.fname) \in DOMAIN cache

\* the state a call left is the one the effect eff describes
LeftBy(eff) == eff.ret = ret /\ eff.parsed = parsed /\ eff.cache = cache

\* C27: load_table_set(file, includes, minimal_preprocess=False) and
\* load_data(file, includes) return the same sequence, invoke the toolchain in
\* the same cases with the same arguments in the same order, and leave the
\* cache in the same state, from every cache state.
C27_FullModeEquivalence ==
    /\ \A fname \in Files, inc \in Includes, out \in ToolOutcomes :
           load_table_set(cache, fname, inc, FALSE, Fail, out)
               = load_data(cache, fname, inc, out)
    /\ (call.op = "load_table_set" /\ ~call.minimal)
          => \E out \in ToolOutcomes :
                 LeftBy(load_data(before, call.fname, call.extra_includes, out))
    /\ call.op = "load_data"
          => \E out \in ToolOutcomes :
                 LeftBy(load_table_set(before, call.fname, call.extra_includes,
                                       FALSE, Fail, out))

\* a full-mode load_table_set that invoked the toolchain and wrote the cache
C27_Witness ==
    /\ call.op = "load_table_set"
    /\ ~call.minimal
    /\ call.extra_includes # <<>>
    /\ Len(parsed) = 1
    /\ ret.kind = "return"
    /\ cache # before

(***************************************************************************)
(* Constant Expression Evaluator.  An Expression Node is a record with the *)
(* attributes pycparser gives it; a token (Constant.value) is a Python     *)
(* string, modelled as the sequence of its characters.                     *)
(***************************************************************************)
Constant(value) == [node |-> "Constant", value |-> value]
ID(name) == [node |-> "ID", name |-> name]
UnaryOp(op, expr) == [node |-> "UnaryOp", op |-> op, expr |-> expr]
BinaryOp(op, left, right) ==
    [node |-> "BinaryOp", op |-> op, left |-> left, right |-> right]
TernaryOp(cond, iftrue, iffalse) ==
    [node |-> "TernaryOp", cond |-> cond, iftrue |-> iftrue, iffalse |-> iffalse]

\* the entries of EVO_METHOD_MAPPING that the model's identifiers use
EVO_METHOD_MAPPING ==
    [n \in { "EVO_NONE", "EVO_FRIENDSHIP", "EVO_LEVEL" } |->
        CASE n = "EVO_NONE" -> 0 [] n = "EVO_FRIENDSHIP" -> 1 [] n = "EVO_LEVEL" -> 4]

DecDigits == { "0", "1", "2", "3", "4", "5", "6", "7", "8", "9" }
HexDigits == DecDigits \cup { "a", "b", "c", "d", "e", "f", "A", "B", "C", "D", "E", "F" }

\* ord(c) of the characters that tokens are made of
Ord(c) ==
    CASE c = "0" -> 48 [] c = "1" -> 49 [] c = "2" -> 50 [] c = "3" -> 51
      [] c = "4" -> 52 [] c = "5" -> 53 [] c = "6" -> 54 [] c = "7" -> 55
      [] c = "8" -> 56 [] c = "9" -> 57
      [] c = "A" -> 65 [] c = "B" -> 66 [] c = "C" -> 67 [] c = "D" -> 68
      [] c = "E" -> 69 [] c = "F" -> 70 [] c = "X" -> 88
      [] c = "a" -> 97 [] c = "b" -> 98 [] c = "c" -> 99 [] c = "d" -> 100
      [] c = "e" -> 101 [] c = "f" -> 102 [] c = "u" -> 117 [] c = "x" -> 120

DigitValue(c) ==
    IF c \in DecDigits THEN Ord(c) - 48
    ELSE IF Ord(c) >= 97 THEN Ord(c) - 87 ELSE Ord(c) - 55

RECURSIVE DigitsValue(_, _)
DigitsValue(s, base) ==
    IF s = <<>> THEN 0
    ELSE DigitsValue(SubSeq(s, 1, Len(s) - 1), base) * base + DigitValue(s[Len(s)])

\* int(s): base 10
PyInt10(s) ==
    IF s # <<>> /\ \A i \in 1..Len(s) : s[i] \in DecDigits
    THEN Return(DigitsValue(s, 10))
    ELSE Raise("ValueError")

\* int(s, 16): an optional 0x or 0X prefix, then hexadecimal digits
PyInt16(s) ==
    LET prefixed == Len(s) >= 2 /\ s[1] = "0" /\ s[2] \in { "x", "X" }
        digits == IF prefixed THEN SubSeq(s, 3, Len(s)) ELSE s
    IN  IF digits # <<>> /\ \A i \in 1..Len(digits) : digits[i] \in HexDigits
        THEN Return(DigitsValue(digits, 16))
        ELSE Raise("ValueError")

\* Python values handed to an operator of BINARY_BOOL_OPS
PyInt(n) == [type |-> "int", v |-> n]
PyStr(s) == [type |-> "str", v |-> s]

\* s < t for Python strings
RECURSIVE StrLess(_, _)
StrLess(s, t) ==
    IF t = <<>> THEN FALSE
    ELSE IF s = <<>> THEN TRUE
    ELSE IF s[1] # t[1] THEN Ord(s[1]) < Ord(t[1])
    ELSE StrLess(Tail(s), Tail(t))

PyLess(x, y) == IF x.type = "int" THEN x.v < y.v ELSE StrLess(x.v, y.v)
PyTruth(x) == IF x.type = "int" THEN x.v # 0 ELSE x.v # <<>>

BoolOps == { "==", "!=", "<", "<=", ">", ">=", "&&", "||" }

\* BINARY_BOOL_OPS[op](x, y), as a truth value
BINARY_BOOL_OPS(op, x, y) ==
    CASE op = "==" -> x.v = y.v
      [] op = "!=" -> x.v # y.v
      [] op = "<"  -> PyLess(x, y)
      [] op = "<=" -> PyLess(x, y) \/ x.v = y.v
      [] op = ">"  -> PyLess(y, x)
      [] op = ">=" -> PyLess(y, x) \/ x.v = y.v
      [] op = "&&" -> PyTruth(x) /\ PyTruth(y)
      [] op = "||" -> PyTruth(x) \/ PyTruth(y)

\* int(b) of a bool
BoolInt(b) == IF b THEN 1 ELSE 0

\* only the left side of the condition is tested for an ID
process_ternary_left_only(expr) ==
    IF expr.cond.left.node = "ID" THEN Raise("ValueError")
    ELSE IF expr.cond.op \notin BoolOps THEN Raise("KeyError")
    ELSE IF expr.cond.left.node # "Constant" \/ expr.cond.right.node # "Constant"
    THEN Raise("AttributeError")
    ELSE IF BINARY_BOOL_OPS(expr.cond.op, PyStr(expr.cond.left.value),
                            PyStr(expr.cond.right.value))
    THEN Return(expr.iftrue)
    ELSE Return(expr.iffalse)

process_ternary(expr) ==
    IF expr.cond.left.node = "ID" THEN Raise("ValueError")
    ELSE IF expr.cond.right.node = "ID" THEN Raise("ValueError")
    ELSE IF expr.cond.op \notin BoolOps THEN Raise("KeyError")
    ELSE IF expr.cond.left.node # "Constant" \/ expr.cond.right.node # "Constant"
    THEN Raise("AttributeError")
    ELSE IF BINARY_BOOL_OPS(expr.cond.op, PyStr(expr.cond.left.value),
                            PyStr(expr.cond.right.value))
    THEN Return(expr.iftrue)
    ELSE Return(expr.iffalse)

\* int(branch.value) of the branch process_ternary selected
BranchInt(branch) ==
    IF branch.kind = "raise" THEN branch
    ELSE IF branch.value.node # "Constant" THEN Raise("AttributeError")
    ELSE PyInt10(branch.value.value)

\* int(process_ternary(expr).value)
TernaryInt(expr) == BranchInt(process_ternary(expr))

\* EVO_METHOD_MAPPING[name] without the membership test
LookupID_strict(name) ==
    IF name \in DOMAIN EVO_METHOD_MAPPING
    THEN Return(EVO_METHOD_MAPPING[name])
    ELSE Raise("KeyError")

\* EVO_METHOD_MAPPING[name] if name is a key, else 0
LookupID(name) ==
    IF name \in DOMAIN EVO_METHOD_MAPPING
    THEN Return(EVO_METHOD_MAPPING[name])
    ELSE Return(0)

\* int(op(left, right)) with op = BINARY_BOOL_OPS[expr.op]
BinaryResult(op, left, right) ==
    IF left.kind = "raise" THEN left
    ELSE IF right.kind = "raise" THEN right
    ELSE IF op \notin BoolOps THEN Raise("KeyError")
    ELSE Return(BoolInt(BINARY_BOOL_OPS(op, PyInt(left.value), PyInt(right.value))))

\* the operand's value without the factor -1
Negated_sign_lost(inner) ==
    IF inner.kind = "raise" THEN inner ELSE Return(inner.value)

\* -1 * inner
Negated(inner) ==
    IF inner.kind = "raise" THEN inner ELSE Return(-1 * inner.value)

\* int(value) without the hexadecimal retry
LiteralInt_decimal_only(value) == PyInt10(value)

\* int(value), then int(value, 16)
LiteralInt(value) ==
    IF PyInt10(value).kind = "return" THEN PyInt10(value) ELSE PyInt16(value)

RECURSIVE eval_binary_operand(_)
RECURSIVE process_binary(_)

eval_binary_operand(expr) ==
    CASE expr.node = "BinaryOp" -> process_binary(expr)
      [] expr.node = "TernaryOp" -> TernaryInt(expr)
      [] expr.node = "ID" -> LookupID(expr.name)
      [] expr.node = "UnaryOp" -> Raise("AttributeError")
      [] expr.node = "Constant" -> PyInt10(expr.value)

\* int(process_binary(expr))
process_binary(expr) ==
    BinaryResult(expr.op, eval_binary_operand(expr.left),
                 eval_binary_operand(expr.right))

RECURSIVE extract_int(_)
extract_int(expr) ==
    CASE expr.node = "TernaryOp" -> TernaryInt(expr)
      [] expr.node = "UnaryOp" ->
            IF expr.op # "-" THEN Raise("ValueError")
            ELSE Negated(extract_int(expr.expr))
      [] expr.node = "BinaryOp" -> process_binary(expr)
      [] expr.node = "ID" -> LookupID(expr.name)
      [] expr.node = "Constant" -> LiteralInt(expr.value)

(***************************************************************************)
(* extract_id.  A name is a Python string that is only compared and        *)
(* joined, and is modelled as a string.                                    *)
(***************************************************************************)
\* branch.name of the branch process_ternary selected
BranchName(branch) ==
    IF branch.kind = "raise" THEN branch
    ELSE IF branch.value.node = "ID" THEN Return(branch.value.name)
    ELSE Raise("AttributeError")

\* the operand names joined right operand first
extract_id_operands_swapped(expr) ==
    CASE expr.node = "TernaryOp" -> BranchName(process_ternary(expr))
      [] expr.node = "BinaryOp" ->
            IF expr.left.node = "ID" /\ expr.right.node = "ID"
            THEN Return(expr.right.name \o expr.op \o expr.left.name)
            ELSE Raise("AttributeError")
      [] expr.node = "ID" -> Return(expr.name)
      [] OTHER -> Raise("AttributeError")

extract_id(expr) ==
    CASE expr.node = "TernaryOp" -> BranchName(process_ternary(expr))
      [] expr.node = "BinaryOp" ->
            IF expr.left.node = "ID" /\ expr.right.node = "ID"
            THEN Return(expr.left.name \o expr.op \o expr.right.name)
            ELSE Raise("AttributeError")
      [] expr.node = "ID" -> Return(expr.name)
      [] OTHER -> Raise("AttributeError")

(***************************************************************************)
(* Evaluator inputs                                                        *)
(***************************************************************************)
MaxUnaryDepth == 2    \* deepest nesting of unary operators

Tokens ==
    { <<"0">>, <<"1">>, <<"3">>, <<"4">>, <<"9">>, <<"1", "0">>,
      <<"0", "x", "3">>, <<"0", "x", "1", "F">>, <<"1", "u">> }
Literals == { Constant(t) : t \in Tokens }
Identifiers == { ID(n) : n \in { "EVO_NONE", "EVO_LEVEL", "UNKNOWN_X" } }
Atoms == Literals \cup Identifiers

RECURSIVE UnaryNest(_, _)
UnaryNest(S, n) ==
    IF n = 0 THEN S
    ELSE LET inner == UnaryNest(S, n - 1)
         IN  inner \cup { UnaryOp(op, e) : op \in { "-", "+" }, e \in inner }

CondOperands ==
    { Constant(<<"3">>), Constant(<<"9">>), Constant(<<"1", "0">>),
      Constant(<<"0", "x", "3">>), ID("EVO_LEVEL"), ID("UNKNOWN_X") }
Branches ==
    { Constant(<<"1">>), Constant(<<"0", "x", "1", "F">>), ID("EVO_LEVEL"),
      ID("UNKNOWN_X"), UnaryOp("-", Constant(<<"3">>)) }
Ternaries ==
    { TernaryOp(BinaryOp(op, l, r), t, f) :
        op \in BoolOps, l \in CondOperands, r \in CondOperands,
        t \in Branches, f \in Branches }

BinaryOperands ==
    Atoms \cup
    { UnaryOp("-", Constant(<<"3">>)),
      BinaryOp("<", Constant(<<"3">>), Constant(<<"4">>)),
      TernaryOp(BinaryOp("==", Constant(<<"3">>), Constant(<<"3">>)),
                Constant(<<"1">>), Constant(<<"0">>)) }
Binaries ==
    { BinaryOp(op, l, r) :
        op \in BoolOps \cup { "|" }, l \in BinaryOperands, r \in BinaryOperands }

\* unary operators over operands that are not atoms
UnaryOverCompound ==
    { UnaryOp(op, e) :
        op \in { "-", "+", "!" },
        e \in { BinaryOp("<", Constant(<<"3">>), Constant(<<"4">>)),
                BinaryOp("|", Constant(<<"3">>), Constant(<<"4">>)),
                BinaryOp("==", ID("EVO_LEVEL"), Constant(<<"0", "x", "3">>)),
                TernaryOp(BinaryOp("==", Constant(<<"3">>), Constant(<<"3">>)),
                          Constant(<<"1">>), Constant(<<"0">>)) } }

Exprs ==
    UnaryNest(Atoms, MaxUnaryDepth) \cup UnaryOverCompound \cup Binaries
    \cup Ternaries

InitEval ==
    /\ call \in { [op |-> "input", expr |-> e] : e \in Exprs }
    /\ ret = NoResult
    /\ cache = EmptyDir
    /\ before = EmptyDir
    /\ parsed = <<>>
    /\ pairs = <<>>
    /\ run = NoRun

ExtractInt ==
    /\ call.op = "input"
    /\ call' = [op |-> "extract_int", expr |-> call.expr]
    /\ ret' = extract_int(call.expr)
    /\ UNCHANGED <<cache, before, parsed, pairs, run>>

ExtractId ==
    /\ call.op = "input"
    /\ call' = [op |-> "extract_id", expr |-> call.expr]
    /\ ret' = extract_id(call.expr)
    /\ UNCHANGED <<cache, before, parsed, pairs, run>>

NextEval == ExtractInt \/ ExtractId

SpecEval == InitEval /\ [][NextEval]_vars

(***************************************************************************)
(* Evaluator claims                                                        *)
(***************************************************************************)
RelOps == { "==", "!=", "<", "<=", ">", ">=" }

\* the integer value of a literal token: base 10, else base 16
TokenValue(tok) == extract_int(Constant(tok))

\* C4: for a TernaryOp whose condition is a relational operator on two integer
\* literals, and whose branches extract_int accepts, extract_int returns the
\* value of the then-branch when the comparison of the literals' integer values
\* holds and the value of the else-branch otherwise.
C4_TernaryFolding ==
    (call.op = "extract_int" /\ call.expr.node = "TernaryOp")
        => LET e == call.expr
               c == e.cond
           IN  ( /\ c.op \in RelOps
                 /\ c.left.node = "Constant" /\ c.right.node = "Constant"
                 /\ TokenValue(c.left.value).kind = "return"
                 /\ TokenValue(c.right.value).kind = "return"
                 /\ extract_int(e.iftrue).kind = "return"
                 /\ extract_int(e.iffalse).kind = "return" )
               => ret = IF BINARY_BOOL_OPS(c.op,
                                           PyInt(TokenValue(c.left.value).value),
                                           PyInt(TokenValue(c.right.value).value))
                        THEN extract_int(e.iftrue)
                        ELSE extract_int(e.iffalse)

\* C5: for a BinaryOp with one of the eight operators and operands that
\* extract_int accepts, extract_int returns 1 when the operator holds of the
\* operands' extract_int values and 0 otherwise.
C5_BinaryFolding ==
    (call.op = "extract_int" /\ call.expr.node = "BinaryOp")
        => LET e == call.expr
               l == extract_int(e.left)
               r == extract_int(e.right)
           IN  (e.op \in BoolOps /\ l.kind = "return" /\ r.kind = "return")
               => ret = Return(BoolInt(BINARY_BOOL_OPS(e.op, PyInt(l.value),
                                                       PyInt(r.value))))

\* C11: the outcome of extract_int on an identifier that is not a key of
\* EVO_METHOD_MAPPING differs from its outcome on the literal 0 and from its
\* outcome on EVO_NONE, the known identifier mapped to 0.
C11_FallbackDistinguishable ==
    (call.op = "extract_int" /\ call.expr.node = "ID"
        /\ call.expr.name \notin DOMAIN EVO_METHOD_MAPPING)
        => /\ ret # extract_int(Constant(<<"0">>))
           /\ ret # extract_int(ID("EVO_NONE"))

\* the condition of a ternary has an identifier on one of its sides
IdInCondition(expr) ==
    expr.node = "TernaryOp"
    /\ (expr.cond.left.node = "ID" \/ expr.cond.right.node = "ID")

\* C16: for a TernaryOp whose condition has an identifier on its left or its
\* right side, in EVO_METHOD_MAPPING or not, extract_int and extract_id both
\* raise ValueError and return nothing.
C16_IdConditionNeverFolded ==
    (call.op \in { "extract_int", "extract_id" } /\ IdInCondition(call.expr))
        => ret = Raise("ValueError")

\* extract_id was called on a ternary whose condition is `literal op UNKNOWN_X`
C16_Witness ==
    /\ call.op = "extract_id" /\ IdInCondition(call.expr)
    /\ call.expr.cond.left.node = "Constant"
    /\ call.expr.cond.right = ID("UNKNOWN_X")
    /\ ret = Raise("ValueError")

\* C17: for a Constant whose token parses in base 10 extract_int returns the
\* base-10 value; for a token that does not but parses in base 16 it returns
\* the base-16 value (0x1F gives 31); for a token that parses in neither it
\* raises.
C17_LiteralParsing ==
    (call.op = "extract_int" /\ call.expr.node = "Constant")
        => LET tok == call.expr.value
           IN  /\ PyInt10(tok).kind = "return"
                    => ret = Return(DigitsValue(tok, 10))
               /\ (PyInt10(tok).kind = "raise" /\ PyInt16(tok).kind = "return")
                    => ret = PyInt16(tok)
               /\ (PyInt10(tok).kind = "raise" /\ PyInt16(tok).kind = "raise")
                    => ret.kind = "raise"
               /\ tok = <<"0", "x", "1", "F">> => ret = Return(31)
               /\ tok = <<"1", "0">> => ret = Return(10)

\* extract_int was called on the hexadecimal token 0x1F
C17_Witness ==
    /\ call.op = "extract_int"
    /\ call.expr = Constant(<<"0", "x", "1", "F">>)
    /\ ret = Return(31)

\* C18: for a UnaryOp with operator '-' extract_int returns the negation of
\* extract_int of the operand, for every operand extract_int accepts; for a
\* UnaryOp with another operator it raises ValueError, whatever the operand
\* would evaluate to or raise.
C18_UnaryFolding ==
    (call.op = "extract_int" /\ call.expr.node = "UnaryOp")
        => IF call.expr.op = "-"
           THEN extract_int(call.expr.expr).kind = "return"
                   => ret = Return(0 - extract_int(call.expr.expr).value)
           ELSE ret = Raise("ValueError")

\* extract_int was called on -(-3)
C18_Witness ==
    /\ call.op = "extract_int"
    /\ call.expr = UnaryOp("-", UnaryOp("-", Constant(<<"3">>)))
    /\ ret = Return(3)

\* the value of an identifier: its EVO_METHOD_MAPPING entry, 0 without one
IdValue(name) ==
    IF name \in DOMAIN EVO_METHOD_MAPPING THEN EVO_METHOD_MAPPING[name] ELSE 0

\* an identifier or a decimal literal, and its value
IdOrDecimal(e) ==
    e.node = "ID" \/ (e.node = "Constant" /\ PyInt10(e.value).kind = "return")
OperandValue(e) ==
    IF e.node = "ID" THEN IdValue(e.name) ELSE DigitsValue(e.value, 10)

Selected(expr) ==
    IF extract_int(TernaryOp(expr.cond, Constant(<<"1">>), Constant(<<"0">>)))
          = Return(1)
    THEN expr.iftrue
    ELSE expr.iffalse

\* a ternary whose condition compares two literals
LiteralCondition(expr) ==
    /\ expr.node = "TernaryOp"
    /\ expr.cond.op \in BoolOps
    /\ expr.cond.left.node = "Constant" /\ expr.cond.right.node = "Constant"

\* C23: extract_id returns, for a TernaryOp with a literal condition, the
\* name of the branch that extract_int's branch selection picks; for a
\* BinaryOp of two named operands, left.name then the operator text then
\* right.name; for an identifier its own name, in EVO_METHOD_MAPPING or not.
C23_EvaluateIdentifier ==
    call.op = "extract_id"
        => /\ (LiteralCondition(call.expr) /\ Selected(call.expr).node = "ID")
                 => ret = Return(Selected(call.expr).name)
           /\ (call.expr.node = "BinaryOp" /\ call.expr.left.node = "ID"
               /\ call.expr.right.node = "ID")
                 => ret = Return(call.expr.left.name \o call.expr.op
                                    \o call.expr.right.name)
           /\ call.expr.node = "ID" => ret = Return(call.expr.name)

\* extract_id was called on 3 == 3 ? EVO_LEVEL : UNKNOWN_X
C23_Witness ==
    /\ call.op = "extract_id"
    /\ call.expr = TernaryOp(BinaryOp("==", Constant(<<"3">>), Constant(<<"3">>)),
                             ID("EVO_LEVEL"), ID("UNKNOWN_X"))
    /\ ret = Return("EVO_LEVEL")

(***************************************************************************)
(* Form change tables (src/porydex/parse/form_change_tables.py)            *)
(***************************************************************************)
InitList(exprs) == [node |-> "InitList", exprs |-> exprs]
\* a declaration: its name, the class of its type node and its initializer
Decl(name, type, init) == [node |-> "Decl", name |-> name, type |-> type, init |-> init]
NoInit == [node |-> "NoneType"]

PyName(n) == [type |-> "str", v |-> n]

\* re.match(_FORM_CHANGE_TABLE_PATTERN, name): group(1) of the names that match
_FORM_CHANGE_TABLE_PATTERN ==
    [n \in { "sAFormChangeTable", "sBFormChangeTable" } |->
        IF n = "sAFormChangeTable" THEN "A" ELSE "B"]

hasattr_exprs(expr) == expr.node = "InitList"

\* the value kept after `try: extract_int(expr)` with the fallback
\* `except: extract_id(expr)`, given what the two calls yield
IntElseId(i, n) ==
    IF i.kind = "return" THEN Return(PyInt(i.value))
    ELSE IF n.kind = "return" THEN Return(PyName(n.value))
    ELSE n

IntOrId(expr) == IntElseId(extract_int(expr), extract_id(expr))

\* parameters.append(param_value), or `continue` when neither call works
AppendParameter(v, parameters) ==
    IF v.kind = "return" THEN <<v.value>> \o parameters ELSE parameters

\* the parameters list built from minimal_expr.exprs[2:]
RECURSIVE Parameters(_)
Parameters(exprs) ==
    IF exprs = <<>> THEN <<>>
    ELSE AppendParameter(IntOrId(Head(exprs)), Parameters(Tail(exprs)))

\* the entry built from the extracted method, target and parameters
FormChangeEntry(method_id, target, parameters) ==
    LET target_species_id == IF target.kind = "return" THEN target.value
                             ELSE PyName("UNKNOWN")
        parameter_to_method == IF parameters # <<>> THEN parameters[1] ELSE PyNone
    IN  IF method_id.kind = "raise" THEN method_id
        ELSE IF method_id.value.type = "int" /\ method_id.value.v = 0
        THEN [kind |-> "break"]
        ELSE [kind |-> "append",
              value |-> <<method_id.value, target_species_id, parameter_to_method>>]

\* one iteration of the loop of parse_form_change_table_decl
FormEntry(minimal_expr) ==
    IF ~(hasattr_exprs(minimal_expr) /\ Len(minimal_expr.exprs) >= 2)
    THEN [kind |-> "skip"]
    ELSE FormChangeEntry(IntOrId(minimal_expr.exprs[1]),
                         IntOrId(minimal_expr.exprs[2]),
                         Parameters(SubSeq(minimal_expr.exprs, 3,
                                           Len(minimal_expr.exprs))))

\* the loop over zip(minimal.init.exprs, full.init.exprs) from pair i on
RECURSIVE FormEntries(_, _, _, _)
\* the rest of the loop after iteration i gave e
FormEntriesAfter(e, minimal_exprs, n, i, result) ==
    CASE e.kind = "raise" -> e
      [] e.kind = "break" -> Return(result)
      [] e.kind = "skip" -> FormEntries(minimal_exprs, n, i + 1, result)
      [] e.kind = "append" ->
            FormEntries(minimal_exprs, n, i + 1, Append(result, e.value))

FormEntries(minimal_exprs, n, i, result) ==
    IF i > n THEN Return(result)
    ELSE FormEntriesAfter(FormEntry(minimal_exprs[i]), minimal_exprs, n, i, result)

Min(a, b) == IF a <= b THEN a ELSE b

\* return true_name, result
NamedTable(true_name, result) ==
    IF result.kind = "raise" THEN result
    ELSE Return(<<true_name, result.value>>)

parse_form_change_table_decl(minimal, full) ==
    IF full.name \notin DOMAIN _FORM_CHANGE_TABLE_PATTERN THEN Raise("ValueError")
    ELSE IF minimal.init.node = "NoneType" \/ full.init.node = "NoneType"
    THEN Raise("AttributeError")
    ELSE NamedTable(_FORM_CHANGE_TABLE_PATTERN[full.name],
                    FormEntries(minimal.init.exprs,
                                Min(Len(minimal.init.exprs), Len(full.init.exprs)),
                                1, <<>>))

\* the index one past the first declaration of full that is not an array
RECURSIVE FormStart(_, _)
FormStart(full, i) ==
    IF i > Len(full) THEN 0
    ELSE IF full[i].type # "ArrayDecl" THEN i
    ELSE FormStart(full, i + 1)

DictPut(d, k, v) == [x \in (DOMAIN d) \cup {k} |-> IF x = k THEN v ELSE d[x]]
EmptyDict == [x \in {} |-> <<>>]

\* the loop over zip(minimal, full[start:]) from pair i on
RECURSIVE FormDeclsFrom(_, _, _, _, _)
\* the rest of the loop after parse_form_change_table_decl gave r for pair i
FormDeclsAfter(r, minimal, rest, i, result, seen) ==
    IF r.kind = "return"
    THEN FormDeclsFrom(minimal, rest, i + 1,
                       DictPut(result, r.value[1], r.value[2]), seen)
    ELSE IF r.exc = "ValueError"
    THEN FormDeclsFrom(minimal, rest, i + 1, result, seen)
    ELSE [ret |-> r, pairs |-> seen]

FormDeclsFrom(minimal, rest, i, result, done) ==
    IF i > Min(Len(minimal), Len(rest))
    THEN [ret |-> Return(result), pairs |-> done]
    ELSE FormDeclsAfter(parse_form_change_table_decl(minimal[i], rest[i]),
                        minimal, rest, i, result,
                        Append(done, <<minimal[i].name, rest[i].name>>))

all_form_change_table_decls(minimal, full) ==
    FormDeclsFrom(minimal, SubSeq(full, FormStart(full, 1) + 1, Len(full)),
                  1, EmptyDict, <<>>)

(***************************************************************************)
(* Items (src/porydex/parse/items.py)                                      *)
(***************************************************************************)
NamedInitializer(name, expr) ==
    [node |-> "NamedInitializer", name |-> <<ID(name)>>, expr |-> expr]

\* `try: return value` with `except: fallback`
Try(value, fallback) ==
    IF value.kind = "return" THEN value ELSE fallback

\* the loop over struct_init.expr.exprs
RECURSIVE PriceFrom(_)
PriceFrom(fields) ==
    IF fields = <<>> THEN Return(0)
    ELSE LET field_init == Head(fields)
             field_expr == field_init.expr
         IN  IF field_init.name[1].name # "price" THEN PriceFrom(Tail(fields))
             ELSE IF field_expr.node = "TernaryOp"
             THEN Try(extract_int(field_expr.iftrue),
                      Try(extract_int(field_expr.iffalse), Return(0)))
             ELSE Try(extract_int(field_expr), Return(0))

get_item_price(struct_init) == PriceFrom(struct_init.expr.exprs)

(***************************************************************************)
(* Table parser inputs                                                     *)
(***************************************************************************)
MaxTableDecls == 3    \* longest sequence of table declarations

E_ok == InitList(<<Constant(<<"1">>), Constant(<<"3">>), Constant(<<"4">>)>>)
E_terminator == InitList(<<Constant(<<"0">>), Constant(<<"0">>)>>)
E_symbolic == InitList(<<ID("FORM_CHANGE_ITEM_HOLD"), ID("SPECIES_A"), ID("ITEM_B")>>)
E_badTarget == InitList(<<Constant(<<"1">>), UnaryOp("+", Constant(<<"3">>))>>)
E_badMethod == InitList(<<UnaryOp("+", Constant(<<"1">>)), Constant(<<"3">>)>>)
E_badParam ==
    InitList(<<Constant(<<"1">>), Constant(<<"3">>), UnaryOp("+", Constant(<<"1">>)),
               Constant(<<"4">>)>>)
E_ternary ==
    InitList(<<TernaryOp(BinaryOp("==", ID("P_GEN"), Constant(<<"1">>)),
                         ID("FORM_A"), ID("FORM_B")),
               Constant(<<"3">>)>>)
E_scalar == Constant(<<"0">>)

FormEntryInputs ==
    { E_ok, E_terminator, E_symbolic, E_badTarget, E_badMethod, E_badParam,
      E_ternary, E_scalar }

\* inputs of parse_form_change_table_decl
FormTablePairs ==
    { <<Decl("sAFormChangeTable", "ArrayDecl", InitList(m)),
        Decl(name, "ArrayDecl", InitList(f))>> :
        m \in SeqsUpTo(FormEntryInputs, 2),
        name \in { "sAFormChangeTable", "gFormChangeData" },
        f \in { <<>>, <<E_ok>>, <<E_ok, E_terminator>> } }

\* inputs of all_form_change_table_decls
D_A == Decl("sAFormChangeTable", "ArrayDecl", InitList(<<E_ok, E_terminator>>))
D_B == Decl("sBFormChangeTable", "ArrayDecl", InitList(<<E_badTarget, E_ok>>))
D_struct == Decl("FormChange", "Struct", NoInit)
FormDecls == { D_A, D_B, D_struct }
FormDeclSeqs == SeqsUpTo(FormDecls, MaxTableDecls)

\* inputs of get_item_price
PriceExprs ==
    UnaryNest(Literals, 1) \cup Identifiers
    \cup { TernaryOp(BinaryOp(">=", l, Constant(<<"3">>)), t, f) :
             l \in { ID("I_PRICE"), Constant(<<"4">>) },
             t \in { Constant(<<"9">>), UnaryOp("+", Constant(<<"9">>)) },
             f \in { Constant(<<"1", "0">>), UnaryOp("+", Constant(<<"1">>)) } }
ItemStructs ==
    { NamedInitializer("ITEM_POTION", InitList(fields)) :
        fields \in { <<>>, <<NamedInitializer("pocket", ID("POCKET_ITEMS"))>> }
                   \cup { <<NamedInitializer("pocket", ID("POCKET_ITEMS")),
                            NamedInitializer("price", e)>> : e \in PriceExprs } }

TableInput(fn, arg) == [op |-> "input", fn |-> fn, arg |-> arg]

InitTables ==
    /\ \/ \E p \in FormTablePairs :
              call = TableInput("parse_form_change_table_decl", p)
       \/ \E m \in FormDeclSeqs, f \in FormDeclSeqs :
              call = TableInput("all_form_change_table_decls", <<m, f>>)
       \/ \E i \in ItemStructs :
              call = TableInput("get_item_price", i)
    /\ ret = NoResult
    /\ cache = EmptyDir
    /\ before = EmptyDir
    /\ parsed = <<>>
    /\ pairs = <<>>
    /\ run = NoRun

Zipped(eff) ==
    /\ ret' = eff.ret
    /\ pairs' = eff.pairs

ParseFormChangeTableDecl ==
    /\ call.op = "input" /\ call.fn = "parse_form_change_table_decl"
    /\ call' = [op |-> call.fn, minimal |-> call.arg[1], full |-> call.arg[2]]
    /\ ret' = parse_form_change_table_decl(call.arg[1], call.arg[2])
    /\ UNCHANGED <<cache, before, parsed, pairs, run>>

AllFormChangeTableDecls ==
    /\ call.op = "input" /\ call.fn = "all_form_change_table_decls"
    /\ call' = [op |-> call.fn, minimal |-> call.arg[1], full |-> call.arg[2]]
    /\ Zipped(all_form_change_table_decls(call.arg[1], call.arg[2]))
    /\ UNCHANGED <<cache, before, parsed, run>>

GetItemPrice ==
    /\ call.op = "input" /\ call.fn = "get_item_price"
    /\ call' = [op |-> call.fn, struct_init |-> call.arg]
    /\ ret' = get_item_price(call.arg)
    /\ UNCHANGED <<cache, before, parsed, pairs, run>>

NextTables == ParseFormChangeTableDecl \/ AllFormChangeTableDecls \/ GetItemPrice

SpecTables == InitTables /\ [][NextTables]_vars

(***************************************************************************)
(* Properties of the table parsers                                         *)
(***************************************************************************)
\* the full-pass declarations that all_form_change_table_decls pairs with
\* the minimal-pass declarations
PairedFull(full) == SubSeq(full, FormStart(full, 1) + 1, Len(full))

\* both declarations reach the zip of parse_form_change_table_decl
ReachesZip(minimal, full) ==
    /\ full.name \in DOMAIN _FORM_CHANGE_TABLE_PATTERN
    /\ minimal.init.node = "InitList"
    /\ full.init.node = "InitList"

\* C2: when the two sequences paired by all_form_change_table_decls, or the
\* two initializer lists paired by parse_form_change_table_decl, differ in
\* length, the call fails with an error instead of returning a result built
\* from the first min(len) pairs; with equal lengths n a call that returns
\* has processed exactly n pairs.
C2_LengthCheck ==
    /\ (call.op = "all_form_change_table_decls")
          => /\ Len(call.minimal) # Len(PairedFull(call.full))
                   => ret.kind = "raise"
             /\ (Len(call.minimal) = Len(PairedFull(call.full))
                 /\ ret.kind = "return")
                   => Len(pairs) = Len(call.minimal)
    /\ (call.op = "parse_form_change_table_decl"
        /\ ReachesZip(call.minimal, call.full)
        /\ Len(call.minimal.init.exprs) # Len(call.full.init.exprs))
          => ret.kind = "raise"

\* the two passes are parses of the same file: the full sequence is the
\* minimal one, possibly after leading declarations that are not form change
\* tables
SameTables(minimal, full) ==
    \E k \in 0..Len(full) :
        /\ SubSeq(full, k + 1, Len(full)) = minimal
        /\ \A j \in 1..k : full[j].name \notin DOMAIN _FORM_CHANGE_TABLE_PATTERN

\* C12: every pair all_form_change_table_decls hands to
\* parse_form_change_table_decl is made of the minimal and the full declaration
\* of the same table, whatever start offset it computed over the full sequence.
C12_PairsSameEntry ==
    (call.op = "all_form_change_table_decls"
        /\ SameTables(call.minimal, call.full))
        => \A i \in 1..Len(pairs) : pairs[i][1] = pairs[i][2]

\* the expressions of one form change entry that the parser hands to
\* extract_int: method and target always, the parameters unless the entry is
\* the terminator
Evaluated(entry) ==
    IF extract_int(entry.exprs[1]) = Return(0)
    THEN { entry.exprs[1], entry.exprs[2] }
    ELSE { entry.exprs[j] : j \in 1..Len(entry.exprs) }

\* the price expression get_item_price hands to extract_int first, if any
PriceOperands(struct_init) ==
    { IF f.expr.node = "TernaryOp" THEN f.expr.iftrue ELSE f.expr :
        f \in { struct_init.expr.exprs[j] :
                  j \in { k \in 1..Len(struct_init.expr.exprs) :
                            /\ struct_init.expr.exprs[k].name[1].name = "price"
                            /\ \A h \in 1..(k - 1) :
                                 struct_init.expr.exprs[h].name[1].name # "price" } } }

\* C10: when extract_int raises ValueError on an expression of the entry a
\* table parser is processing (the price field for get_item_price, the first
\* paired entry for parse_form_change_table_decl), the parser raises that
\* ValueError; it does not default or drop the value and return.
C10_EvaluatorErrorsPropagate ==
    /\ (call.op = "get_item_price"
        /\ \E e \in PriceOperands(call.struct_init) :
              extract_int(e) = Raise("ValueError"))
          => ret = Raise("ValueError")
    /\ (call.op = "parse_form_change_table_decl"
        /\ ReachesZip(call.minimal, call.full)
        /\ call.minimal.init.exprs # <<>>
        /\ call.full.init.exprs # <<>>
        /\ hasattr_exprs(call.minimal.init.exprs[1])
        /\ Len(call.minimal.init.exprs[1].exprs) >= 2
        /\ \E e \in Evaluated(call.minimal.init.exprs[1]) :
              extract_int(e) = Raise("ValueError"))
          => ret = Raise("ValueError")

(***************************************************************************)
(* parse_form_change_tables: the dual-resolution load of                   *)
(* form_change_tables.h.  As in the loader above a declaration sequence is *)
(* the sequence of its declarations' names; DeclOf gives the declaration   *)
(* a name stands for.  The toolchain is a function of the file and the     *)
(* arguments, so the two passes of one call, which pass the same           *)
(* arguments, get the same sequence.                                       *)
(***************************************************************************)
MaxDualDecls == 2    \* longest declaration sequence of form_change_tables.h

FormFile == Path("src/data/pokemon", "form_change_tables", ".h")
FormIncludes ==
    <<"-include", "constants/form_change_types.h",
      "-include", "constants/species.h",
      "-include", "constants/items.h",
      "-include", "constants/abilities.h",
      "-include", "constants/moves.h",
      "-include", "config/species_enabled.h">>

FormNames == { "FormChange", "sAFormChangeTable", "sBFormChangeTable" }
FormOutputs == SeqsUpTo(FormNames, MaxDualDecls)

DeclOf(name) ==
    CASE name = "sAFormChangeTable" -> D_A
      [] name = "sBFormChangeTable" -> D_B
      [] name = "FormChange" -> D_struct
DeclsOf(names) == [i \in 1..Len(names) |-> DeclOf(names[i])]

\* result = all_form_change_table_decls(minimal, full); return result
FormResult(minimal, full, result) ==
    [ret |-> result.ret, cache |-> full.cache,
     parsed |-> minimal.parsed \o full.parsed, pairs |-> result.pairs]

\* after full = load_table_set(..., minimal_preprocess=True)
AfterFullPass(minimal, full) ==
    IF full.ret.kind = "raise"
    THEN [ret |-> full.ret, cache |-> full.cache,
          parsed |-> minimal.parsed \o full.parsed, pairs |-> <<>>]
    ELSE FormResult(minimal, full,
                    all_form_change_table_decls(DeclsOf(minimal.ret.value),
                                                DeclsOf(full.ret.value)))

\* after minimal = load_table_set(..., minimal_preprocess=True)
AfterMinimalPass(minimal, fname, outMin, outFull) ==
    IF minimal.ret.kind = "raise"
    THEN [ret |-> minimal.ret, cache |-> minimal.cache,
          parsed |-> minimal.parsed, pairs |-> <<>>]
    ELSE AfterFullPass(minimal,
                       load_table_set(minimal.cache, fname, FormIncludes, TRUE,
                                      outMin, outFull))

parse_form_change_tables(c, fname, outMin, outFull) ==
    AfterMinimalPass(load_table_set(c, fname, FormIncludes, TRUE, outMin, outFull),
                     fname, outMin, outFull)

\* the effect of one call on the state
Loaded(eff) ==
    /\ before' = cache
    /\ cache' = eff.cache
    /\ ret' = eff.ret
    /\ parsed' = eff.parsed
    /\ pairs' = eff.pairs

ParseFormChangeTables ==
    \E outMin \in FormOutputs \cup { Fail }, outFull \in FormOutputs \cup { Fail } :
        /\ call' = [op |-> "parse_form_change_tables", fname |-> FormFile]
        /\ Loaded(parse_form_change_tables(cache, FormFile, outMin, outFull))
        /\ UNCHANGED run

\* The cache directory as earlier runs left it: empty, or holding an entry of
\* form_change_tables.
InitDual ==
    /\ cache \in { EmptyDir } \cup
                 { [t \in { _pickle_target(FormFile) } |-> d] : d \in FormOutputs }
    /\ before = cache
    /\ call = [op |-> "none"]
    /\ ret = NoResult
    /\ parsed = <<>>
    /\ pairs = <<>>
    /\ run = NoRun

NextDual == ParseFormChangeTables

SpecDual == InitDual /\ [][NextDual]_vars

\* a call of parse_form_change_tables whose loads completed
DualLoaded ==
    call.op = "parse_form_change_tables" /\ ret # Raise("ToolchainFailure")

\* C13: in a dual-resolution load the full pass goes through the cache and
\* the minimal pass does not: a load that completes on an empty cache leaves
\* an entry for the file's stem, and a load that finds that entry invokes the
\* toolchain once, for the minimal pass only.
C13_CachingAsymmetry ==
    DualLoaded
        => /\ before = EmptyDir => _pickle_target(call.fname) \in DOMAIN cache
           /\ _pickle_target(call.fname) \in DOMAIN before
                 => /\ Len(parsed) = 1
                    /\ parsed[1].cpp_args = MinimalArgs(FormIncludes)

(***************************************************************************)
(* extract_compound_str.  A string token is the sequence of its            *)
(* characters, quotes included.                                            *)
(***************************************************************************)
MaxStrElems == 2    \* longest initializer or argument list

Cast(expr) == [node |-> "Cast", expr |-> expr]
FuncCall(args) == [node |-> "FuncCall", args |-> args]
ExprList(exprs) == [node |-> "ExprList", exprs |-> exprs]
CompoundLiteral(init) == [node |-> "CompoundLiteral", init |-> init]

\* s.replace('\\n', ' '): every backslash followed by n becomes one space
RECURSIVE ReplaceNewline(_)
ReplaceNewline(s) ==
    IF s = <<>> THEN <<>>
    ELSE IF Len(s) >= 2 /\ s[1] = "\\" /\ s[2] = "n"
    THEN <<" ">> \o ReplaceNewline(SubSeq(s, 3, Len(s)))
    ELSE <<s[1]>> \o ReplaceNewline(Tail(s))

\* s[1:], the slice without its end
StripEnds_leading_only(s) == IF s = <<>> THEN <<>> ELSE Tail(s)

\* s[1:-1]
StripEnds(s) == IF Len(s) < 2 THEN <<>> ELSE SubSeq(s, 2, Len(s) - 1)

\* value.replace('\\n', ' ')[1:-1]
Unquoted(value) == StripEnds(ReplaceNewline(value))

\* list.exprs[-1].value.replace('\\n', ' ')[1:-1]
LastString(list) ==
    IF list.node \notin { "InitList", "ExprList" } THEN Raise("AttributeError")
    ELSE IF list.exprs = <<>> THEN Raise("IndexError")
    ELSE IF list.exprs[Len(list.exprs)].node # "Constant"
    THEN Raise("AttributeError")
    ELSE Return(Unquoted(list.exprs[Len(list.exprs)].value))

RECURSIVE extract_compound_str(_)
extract_compound_str(expr) ==
    CASE expr.node = "Cast" ->
            IF expr.expr.node # "FuncCall" THEN Raise("AttributeError")
            ELSE LastString(expr.expr.args)
      [] expr.node = "CompoundLiteral" -> LastString(expr.init)
      [] expr.node \notin { "Cast", "CompoundLiteral", "InitList", "ExprList" } ->
            Raise("AttributeError")
      [] expr.node \in { "InitList", "ExprList" } ->
            IF expr.exprs = <<>> THEN Raise("IndexError")
            ELSE IF expr.exprs[Len(expr.exprs)].node = "FuncCall"
            THEN IF expr.exprs[1].node # "FuncCall" THEN Raise("AttributeError")
                 ELSE extract_compound_str(expr.exprs[1].args)
            ELSE LastString(expr)

\* the Call shape is not probed: every node is read as an InitList
extract_u8_str_no_call_probe(expr) ==
    IF expr.node \notin { "InitList", "ExprList" } THEN Raise("AttributeError")
    ELSE IF expr.exprs = <<>> THEN Raise("IndexError")
    ELSE IF expr.exprs[1].node # "Constant" THEN Raise("AttributeError")
    ELSE Return(Unquoted(expr.exprs[1].value))

extract_u8_str(expr) ==
    IF expr.node = "FuncCall" THEN LastString(expr.args)
    ELSE IF expr.node \notin { "InitList", "ExprList" } THEN Raise("AttributeError")
    ELSE IF expr.exprs = <<>> THEN Raise("IndexError")
    ELSE IF expr.exprs[1].node # "Constant" THEN Raise("AttributeError")
    ELSE Return(Unquoted(expr.exprs[1].value))

StrTokens ==
    { <<"\"", "A", "\"">>, <<"\"", "B", "\\", "n", "C", "\"">>, <<"\"", "\"">> }
StrConstants == { Constant(t) : t \in StrTokens }
\* COMPOUND_STRING("...") and _("...") calls; one call without arguments
Calls ==
    { FuncCall(ExprList(a)) : a \in SeqsUpTo(StrConstants, MaxStrElems) \ { <<>> } }
    \cup { FuncCall(NoInit) }
Elements == StrConstants \cup Calls
StrInitLists == { InitList(e) : e \in SeqsUpTo(Elements, MaxStrElems) }
StrExprs ==
    { Cast(c) : c \in Calls \cup StrConstants }
    \cup { CompoundLiteral(InitList(e)) : e \in SeqsUpTo(StrConstants, MaxStrElems) }
    \cup StrInitLists \cup StrConstants \cup Calls

InitStr ==
    /\ call \in { [op |-> "input", expr |-> e] : e \in StrExprs }
    /\ ret = NoResult
    /\ cache = EmptyDir
    /\ before = EmptyDir
    /\ parsed = <<>>
    /\ pairs = <<>>
    /\ run = NoRun

ExtractCompoundStr ==
    /\ call.op = "input"
    /\ call' = [op |-> "extract_compound_str", expr |-> call.expr]
    /\ ret' = extract_compound_str(call.expr)
    /\ UNCHANGED <<cache, before, parsed, pairs, run>>

ExtractU8Str ==
    /\ call.op = "input"
    /\ call' = [op |-> "extract_u8_str", expr |-> call.expr]
    /\ ret' = extract_u8_str(call.expr)
    /\ UNCHANGED <<cache, before, parsed, pairs, run>>

NextStr == ExtractCompoundStr \/ ExtractU8Str

SpecStr == InitStr /\ [][NextStr]_vars

\* the last element of a non-empty list node
LastOf(list) == list.exprs[Len(list.exprs)]

\* a call whose last argument is a string literal
StringCall(e) ==
    /\ e.node = "FuncCall" /\ e.args.node = "ExprList"
    /\ e.args.exprs # <<>> /\ LastOf(e.args).node = "Constant"

\* C20: extract_compound_str returns, for a Cast, the string of the last
\* argument of the nested call; for a CompoundLiteral, the string of the last
\* element of its InitList; and for a plain InitList of any length whose last
\* element is a call, the string of the last argument of that last element.
C20_CompoundStrShapes ==
    call.op = "extract_compound_str"
        => /\ (call.expr.node = "Cast" /\ StringCall(call.expr.expr))
                 => ret = Return(Unquoted(LastOf(call.expr.expr.args).value))
           /\ (call.expr.node = "CompoundLiteral"
               /\ call.expr.init.exprs # <<>>)
                 => ret = Return(Unquoted(LastOf(call.expr.init).value))
           /\ (call.expr.node = "InitList" /\ call.expr.exprs # <<>>
               /\ StringCall(LastOf(call.expr)))
                 => ret = Return(Unquoted(LastOf(LastOf(call.expr).args).value))

\* the InitList of one string element that holds the token of a call's last
\* argument, and the call of one argument that holds an InitList's first token
AsInitList(e) == InitList(<<LastOf(e.args)>>)
AsCall(e) == FuncCall(ExprList(<<e.exprs[1]>>))

\* an InitList whose first element is a string literal
StringList(e) ==
    e.node = "InitList" /\ e.exprs # <<>> /\ e.exprs[1].node = "Constant"

\* C21: extract_u8_str probes the Call shape first and reads the call's string
\* argument; a node that is not a call is read as an InitList, from its string
\* element; a call and an InitList that wrap the same token give the same
\* string.
C21_ShortStringShapes ==
    call.op = "extract_u8_str"
        => /\ StringCall(call.expr)
                 => /\ ret = Return(Unquoted(LastOf(call.expr.args).value))
                    /\ ret = extract_u8_str(AsInitList(call.expr))
           /\ StringList(call.expr)
                 => /\ ret = Return(Unquoted(call.expr.exprs[1].value))
                    /\ ret = extract_u8_str(AsCall(call.expr))

\* extract_u8_str was called on a call of two string arguments
C21_Witness ==
    /\ call.op = "extract_u8_str" /\ StringCall(call.expr)
    /\ Len(call.expr.args.exprs) = 2
    /\ call.expr.args.exprs[1] # call.expr.args.exprs[2]
    /\ ret.kind = "return"

\* tok with every backslash-n pair replaced by a space, read from the left
RECURSIVE SpacesForEscapes(_)
SpacesForEscapes(tok) ==
    IF Len(tok) < 2 THEN tok
    ELSE IF <<tok[1], tok[2]>> = <<"\\", "n">>
    THEN <<" ">> \o SpacesForEscapes(SubSeq(tok, 3, Len(tok)))
    ELSE <<tok[1]>> \o SpacesForEscapes(Tail(tok))

\* tok is delimited by a leading and a trailing quote character
Quoted(tok) == Len(tok) >= 2 /\ tok[1] = "\"" /\ tok[Len(tok)] = "\""

\* the string claimed for a quoted token: the characters between its two
\* quotes, escaped newlines replaced by spaces
Normalised(tok) == SpacesForEscapes(SubSeq(tok, 2, Len(tok) - 1))

\* the literal whose token a supported shape wraps
Wrapped(fn, e) ==
    IF fn = "extract_u8_str"
    THEN IF StringCall(e) THEN { LastOf(e.args) }
         ELSE IF StringList(e) THEN { e.exprs[1] } ELSE {}
    ELSE IF e.node = "Cast" /\ StringCall(e.expr) THEN { LastOf(e.expr.args) }
         ELSE IF e.node = "CompoundLiteral" /\ e.init.exprs # <<>>
         THEN { LastOf(e.init) }
         ELSE IF e.node = "InitList" /\ e.exprs # <<>>
                 /\ LastOf(e).node = "Constant"
         THEN { LastOf(e) }
         ELSE {}

MaxValueLen == 3    \* longest value handed to extract_prefixed

Letters == { "A", "B", "_" }
Values == SeqsUpTo(Letters, MaxValueLen)
PrefixPattern(literal, group) == [literal |-> literal, group |-> group]
PrefixPatterns ==
    { PrefixPattern(l, g) : l \in { <<"A", "_">>, <<"B">> },
                            g \in { "(.*)", "(.+)", "" } }

\* mod_if_match: the default `lambda x: x`, and str.lower
Transforms == { "identity", "lower" }
Lower(c) == CASE c = "A" -> "a" [] c = "B" -> "b" [] OTHER -> c
mod_if_match(f, x) ==
    IF f = "identity" THEN x ELSE [i \in 1..Len(x) |-> Lower(x[i])]

\* val[len(literal):]
Rest(pattern, val) == SubSeq(val, Len(pattern.literal) + 1, Len(val))

\* re.match(prefix, val): whether the pattern matches at the start of val
re_match(pattern, val) ==
    /\ Len(val) >= Len(pattern.literal)
    /\ SubSeq(val, 1, Len(pattern.literal)) = pattern.literal
    /\ pattern.group = "(.+)" => Rest(pattern, val) # <<>>

\* the transform is applied whether or not the prefix matched
extract_prefixed_always_transformed(prefix, val, f) ==
    IF re_match(prefix, val)
    THEN IF prefix.group = "" THEN Raise("IndexError")
         ELSE Return(mod_if_match(f, Rest(prefix, val)))
    ELSE Return(mod_if_match(f, val))

extract_prefixed(prefix, val, f) ==
    IF re_match(prefix, val)
    THEN IF prefix.group = "" THEN Raise("IndexError")
         ELSE Return(mod_if_match(f, Rest(prefix, val)))
    ELSE Return(val)

InitPrefixed ==
    /\ call \in { [op |-> "input", prefix |-> p, val |-> v, mod_if_match |-> f] :
                    p \in PrefixPatterns, v \in Values, f \in Transforms }
    /\ ret = NoResult
    /\ cache = EmptyDir
    /\ before = EmptyDir
    /\ parsed = <<>>
    /\ pairs = <<>>
    /\ run = NoRun

ExtractPrefixed ==
    /\ call.op = "input"
    /\ call' = [call EXCEPT !.op = "extract_prefixed"]
    /\ ret' = extract_prefixed(call.prefix, call.val, call.mod_if_match)
    /\ UNCHANGED <<cache, before, parsed, pairs, run>>

NextPrefixed == ExtractPrefixed

SpecPrefixed == InitPrefixed /\ [][NextPrefixed]_vars

\* val begins with the pattern's literal and the group can capture what
\* follows it
MatchesAtStart(pattern, val) ==
    \E n \in 0..Len(val) :
        /\ [i \in 1..n |-> val[i]] = pattern.literal
        /\ pattern.group = "(.+)" => n < Len(val)

\* what follows the literal in val
Remainder(pattern, val) ==
    [i \in 1..(Len(val) - Len(pattern.literal)) |-> val[i + Len(pattern.literal)]]

\* C24: for a prefix pattern with a capture group, extract_prefixed returns
\* the transform of the captured remainder when the pattern matches at the
\* start of the value (the remainder itself under the default transform), and
\* the value unchanged, the transform not applied, when it does not.
C24_ExtractPrefixed ==
    (call.op = "extract_prefixed" /\ call.prefix.group # "")
        => IF MatchesAtStart(call.prefix, call.val)
           THEN /\ ret = Return(mod_if_match(call.mod_if_match,
                                             Remainder(call.prefix, call.val)))
                /\ call.mod_if_match = "identity"
                      => ret = Return(Remainder(call.prefix, call.val))
           ELSE ret = Return(call.val)

\* extract_prefixed was called with str.lower on a value that holds the
\* literal but not at its start
C24_Witness ==
    /\ call.op = "extract_prefixed"
    /\ call.prefix = PrefixPattern(<<"B">>, "(.*)")
    /\ call.val = <<"A", "B", "A">>
    /\ call.mod_if_match = "lower"
    /\ ret = Return(<<"A", "B", "A">>)

(***************************************************************************)
(* Trainer parties: parse_trainer_parties reads the sParty_* declarations  *)
(* of trainer_parties.h, convert_to_consistent_format turns them into      *)
(* lists of members with numeric ids.                                      *)
(***************************************************************************)
MaxPartyDecls == 2    \* longest declaration sequence of trainer_parties.h

\* Python's bool is a subclass of int: True is 1 and False is 0
PyBool(b) == [type |-> "bool", v |-> IF b THEN 1 ELSE 0]
isinstance_int(x) == x.type \in { "int", "bool" }

\* a call NAME(args); args is None when the call has no argument list
NamedCall(name, args) == [node |-> "FuncCall", name |-> ID(name), args |-> args]

hasattr_name(expr) == expr.node \in { "ID", "FuncCall" }
hasattr_args(expr) == expr.node = "FuncCall"

evMap ==
    [n \in { "TRAINER_PARTY_EVS_TIMID", "TRAINER_PARTY_EVS_MODEST",
             "TRAINER_PARTY_EVS_JOLLY", "TRAINER_PARTY_EVS_ADAMANT",
             "TRAINER_PARTY_EVS_BOLD", "TRAINER_PARTY_EVS_IMPISH",
             "TRAINER_PARTY_EVS_HASTY_OR_NAIVE_ATK",
             "TRAINER_PARTY_EVS_HASTY_OR_NAIVE_SP_ATK",
             "TRAINER_PARTY_EVS_MILD", "TRAINER_PARTY_EVS_QUIET",
             "TRAINER_PARTY_EVS_CALM" } |->
        CASE n \in { "TRAINER_PARTY_EVS_TIMID", "TRAINER_PARTY_EVS_MODEST" }
                -> <<6, 0, 0, 252, 0, 252>>
          [] n \in { "TRAINER_PARTY_EVS_JOLLY", "TRAINER_PARTY_EVS_ADAMANT" }
                -> <<6, 252, 0, 0, 0, 252>>
          [] n = "TRAINER_PARTY_EVS_BOLD" -> <<252, 0, 252, 6, 0, 0>>
          [] n = "TRAINER_PARTY_EVS_IMPISH" -> <<252, 6, 252, 0, 0, 0>>
          [] n = "TRAINER_PARTY_EVS_HASTY_OR_NAIVE_ATK" -> <<0, 252, 0, 6, 0, 252>>
          [] n \in { "TRAINER_PARTY_EVS_HASTY_OR_NAIVE_SP_ATK",
                     "TRAINER_PARTY_EVS_MILD" } -> <<0, 6, 0, 252, 0, 252>>
          [] n = "TRAINER_PARTY_EVS_QUIET" -> <<252, 6, 0, 252, 0, 0>>
          [] n = "TRAINER_PARTY_EVS_CALM" -> <<252, 0, 0, 6, 252, 0>>]

\* a list of ints as a Python value
IntsValue(ns) == PyList([i \in 1..Len(ns) |-> PyInt(ns[i])])

\* [n] * k
RECURSIVE Times(_, _)
Times(n, k) == IF k <= 0 THEN <<>> ELSE <<n>> \o Times(n, k - 1)

\* [extract_int(arg) for arg in exprs]: the first failure ends the list
RECURSIVE IntList(_)
IntListCons(h, t) ==
    IF h.kind = "raise" THEN h
    ELSE IF t.kind = "raise" THEN t
    ELSE Return(<<h.value>> \o t.value)
IntList(exprs) ==
    IF exprs = <<>> THEN Return(<<>>)
    ELSE IntListCons(extract_int(Head(exprs)), IntList(Tail(exprs)))

\* mon_data[key] = value, where computing the value may have raised
Store(mon_data, key, r) ==
    IF r.kind = "raise" THEN r ELSE Return(DictPut(mon_data, key, r.value))

AsPyInt(r) == IF r.kind = "raise" THEN r ELSE Return(PyInt(r.value))

\* field_init.expr.name if the node has one, else extract_int(field_init.expr)
NameElseInt(expr) ==
    IF hasattr_name(expr)
    THEN Return(IF expr.node = "ID" THEN PyName(expr.name) ELSE expr.name)
    ELSE AsPyInt(extract_int(expr))

\* the iv field
StoreIv(mon_data, iv_values) ==
    IF iv_values.kind = "raise" THEN iv_values
    ELSE Return(DictPut(DictPut(mon_data, "iv", IntsValue(iv_values.value)),
                        "iv_perfect",
                        PyBool(\A i \in 1..Len(iv_values.value) :
                                   iv_values.value[i] >= 31)))
IvField(mon_data, expr) ==
    IF hasattr_args(expr) /\ expr.args.node # "NoneType"
    THEN StoreIv(mon_data, IntList(expr.args.exprs))
    ELSE Return(DictPut(mon_data, "iv", PyBool(TRUE)))

\* the moves field
RECURSIVE MoveList(_)
MoveListCons(h, t) ==
    IF h.kind = "raise" THEN h
    ELSE IF t.kind = "raise" THEN t
    ELSE Return(<<h.value>> \o t.value)
MoveList(exprs) ==
    IF exprs = <<>> THEN Return(<<>>)
    ELSE MoveListCons(NameElseInt(Head(exprs)), MoveList(Tail(exprs)))
AsPyList(r) == IF r.kind = "raise" THEN r ELSE Return(PyList(r.value))
MovesField(mon_data, expr) ==
    IF hasattr_exprs(expr)
    THEN Store(mon_data, "moves", AsPyList(MoveList(expr.exprs)))
    ELSE Return(DictPut(mon_data, "moves", PyList(<<>>)))

\* the ev field
Padded(ev_values) ==
    IF ev_values.kind = "raise" THEN ev_values
    ELSE Return(IntsValue(ev_values.value \o Times(0, 6 - Len(ev_values.value))))
SingleEv(ev_val) ==
    IF ev_val.kind = "return"
    THEN Return(IntsValue(Times(ev_val.value, 6)))
    ELSE IF ev_val.exc \in { "AttributeError", "ValueError" }
    THEN Return(IntsValue(Times(0, 6)))
    ELSE ev_val
EvField(mon_data, expr) ==
    IF hasattr_name(expr)
    THEN LET macro_name == IF expr.node = "ID" THEN expr.name ELSE expr.name.name
         IN  IF macro_name \in DOMAIN evMap
             THEN Return(DictPut(mon_data, "ev", IntsValue(evMap[macro_name])))
             ELSE IF /\ macro_name = "TRAINER_PARTY_EVS"
                     /\ hasattr_args(expr)
                     /\ expr.args.node # "NoneType"
             THEN Store(mon_data, "ev", Padded(IntList(expr.args.exprs)))
             ELSE Return(DictPut(mon_data, "ev",
                                 IntsValue(<<6, 252, 0, 0, 0, 252>>)))
    ELSE Store(mon_data, "ev", SingleEv(extract_int(expr)))

\* the body of the loop over mon_init.exprs
Field(mon_data, field_init) ==
    IF ~(field_init.node = "NamedInitializer" /\ Len(field_init.name) > 0)
    THEN Return(mon_data)
    ELSE LET field_name == field_init.name[1].name
         IN  CASE field_name = "lvl"
                    -> Store(mon_data, "lvl", AsPyInt(extract_int(field_init.expr)))
               [] field_name = "species"
                    -> Store(mon_data, "species", NameElseInt(field_init.expr))
               [] field_name = "iv" -> IvField(mon_data, field_init.expr)
               [] field_name = "moves" -> MovesField(mon_data, field_init.expr)
               [] field_name = "ability"
                    -> Store(mon_data, "ability", NameElseInt(field_init.expr))
               [] field_name = "nature"
                    -> Store(mon_data, "nature", NameElseInt(field_init.expr))
               [] field_name \in { "heldItem", "item" }
                    -> Store(mon_data, "item", NameElseInt(field_init.expr))
               [] field_name = "ev" -> EvField(mon_data, field_init.expr)
               [] field_name \in { "preStatus", "prestatus", "status" }
                    -> Store(mon_data, "preStatus", NameElseInt(field_init.expr))
               [] OTHER -> Return(mon_data)

\* the loop over mon_init.exprs, from a mon_data that may have raised
RECURSIVE Fields(_, _)
Fields(r, field_inits) ==
    IF r.kind = "raise" \/ field_inits = <<>> THEN r
    ELSE Fields(Field(r.value, Head(field_inits)), Tail(field_inits))

\* the local variable mon_data: unbound until the first struct initializer
Unbound == [bound |-> FALSE]
Bound(mon_data) == [bound |-> TRUE, value |-> mon_data]

\* mon_data after one struct initializer ran to its end
Rebound(r) == IF r.kind = "raise" THEN r ELSE Return(Bound(r.value))

\* the loop over decl.init.exprs: every struct initializer starts a fresh
\* mon_data and fills it; nothing else happens in the loop
RECURSIVE Mons(_, _)
Mons(r, mon_inits) ==
    IF r.kind = "raise" \/ mon_inits = <<>> THEN r
    ELSE IF hasattr_exprs(Head(mon_inits))
    THEN Mons(Rebound(Fields(Return(EmptyDict), Head(mon_inits).exprs)),
              Tail(mon_inits))
    ELSE Mons(r, Tail(mon_inits))

\* the names of the declarations of trainer_parties.h
PartyNames ==
    { "sParty_Two", "sParty_One", "sParty_Empty", "sParty_Scalar",
      "sParty_Extern", "gTrainerCount" }

\* decl.name.startswith("sParty_")
startswith_sParty(name) ==
    name \in { "sParty_Two", "sParty_One", "sParty_Empty", "sParty_Scalar",
               "sParty_Extern" }

\* the loop over parties_decls from declaration i on; mon_data is the local
\* variable as the earlier declarations left it
RECURSIVE PartiesFrom(_, _, _, _)
\* party_data["party"].append(mon_data); all_parties[decl.name] = party_data
PartyAfter(r, decls, i, all_parties) ==
    IF r.kind = "raise" THEN r
    ELSE IF ~r.value.bound THEN Raise("UnboundLocalError")
    ELSE PartiesFrom(decls, i + 1, r.value,
                     DictPut(all_parties, decls[i].name,
                             [name |-> decls[i].name,
                              party |-> <<r.value.value>>]))
PartiesFrom(decls, i, mon_data, all_parties) ==
    IF i > Len(decls) THEN Return(all_parties)
    ELSE IF startswith_sParty(decls[i].name) /\ decls[i].init.node # "NoneType"
    THEN PartyAfter(IF hasattr_exprs(decls[i].init)
                    THEN Mons(Return(mon_data), decls[i].init.exprs)
                    ELSE Return(mon_data),
                    decls, i, all_parties)
    ELSE PartiesFrom(decls, i + 1, mon_data, all_parties)

PartyFile == Path("src/data", "trainer_parties", ".h")
PartyIncludes ==
    <<"-include", "constants/species.h",
      "-include", "constants/moves.h",
      "-include", "constants/abilities.h",
      "-include", "constants/items.h",
      "-include", "constants/trainers.h">>

\* struct initializers of party members
Mon_A ==
    InitList(<<NamedInitializer("lvl", Constant(<<"5">>)),
               NamedInitializer("species", ID("SPECIES_A"))>>)
Mon_B ==
    InitList(<<NamedInitializer("lvl", Constant(<<"7">>)),
               NamedInitializer("species", ID("SPECIES_B")),
               NamedInitializer("iv", ID("TRAINER_PARTY_IVS_MAX")),
               NamedInitializer("heldItem", ID("ITEM_A"))>>)
Mon_C ==
    InitList(<<NamedInitializer("species", Constant(<<"3">>)),
               NamedInitializer("iv",
                   NamedCall("TRAINER_PARTY_IVS",
                             ExprList(<<Constant(<<"3", "1">>), Constant(<<"0">>)>>))),
               NamedInitializer("moves",
                   InitList(<<ID("MOVE_A"), Constant(<<"0">>)>>)),
               NamedInitializer("ev", ID("TRAINER_PARTY_EVS_BOLD"))>>)

\* the declaration a name of trainer_parties.h stands for
PartyDeclOf(name) ==
    CASE name = "sParty_Two" -> Decl(name, "ArrayDecl", InitList(<<Mon_A, Mon_B>>))
      [] name = "sParty_One" -> Decl(name, "ArrayDecl", InitList(<<Mon_C>>))
      [] name = "sParty_Empty" -> Decl(name, "ArrayDecl", InitList(<<>>))
      [] name = "sParty_Scalar"
            -> Decl(name, "ArrayDecl", InitList(<<Constant(<<"0">>)>>))
      [] name = "sParty_Extern" -> Decl(name, "ArrayDecl", NoInit)
      [] name = "gTrainerCount" -> Decl(name, "TypeDecl", InitList(<<Mon_A>>))
PartyDeclsOf(names) == [i \in 1..Len(names) |-> PartyDeclOf(names[i])]

PartyOutputs == SeqsUpTo(PartyNames, MaxPartyDecls)

\* the parties of the declarations that load_table_set returned
Parties(loaded) ==
    IF loaded.ret.kind = "raise" THEN loaded
    ELSE [ret |-> PartiesFrom(PartyDeclsOf(loaded.ret.value), 1, Unbound, EmptyDict),
          cache |-> loaded.cache, parsed |-> loaded.parsed]

parse_trainer_parties(c, fname, out) ==
    Parties(load_table_set(c, fname, PartyIncludes, FALSE, Fail, out))

ParseTrainerParties ==
    \E out \in PartyOutputs \cup { Fail } :
        /\ Apply([op |-> "parse_trainer_parties", fname |-> PartyFile],
                 parse_trainer_parties(cache, PartyFile, out))
        /\ UNCHANGED run

(***************************************************************************)
(* convert_to_consistent_format                                            *)
(***************************************************************************)
MaxPartySize == 1    \* most members of a party handed to the conversion

nature_mapping ==
    <<"hardy", "lonely", "brave", "adamant", "naughty", "bold", "docile",
      "relaxed", "impish", "lax", "timid", "hasty", "serious", "jolly", "naive",
      "modest", "mild", "quiet", "bashful", "rash", "calm", "gentle", "sassy",
      "careful", "quirky">>

\* nature_val.replace("NATURE_", "").lower() of the NATURE_ names
NatureLower ==
    [n \in { "NATURE_TIMID", "NATURE_BOLD" } |->
        IF n = "NATURE_TIMID" THEN "timid" ELSE "bold"]

\* the constant maps and the item names handed to the conversion
species_constants ==
    [n \in { "SPECIES_A", "SPECIES_B" } |-> IF n = "SPECIES_A" THEN 1 ELSE 2]
move_constants ==
    [n \in { "MOVE_NONE", "MOVE_A", "MOVE_HIDDEN_POWER" } |->
        CASE n = "MOVE_NONE" -> 0 [] n = "MOVE_A" -> 10
          [] n = "MOVE_HIDDEN_POWER" -> 237]
ability_constants == [n \in { "ABILITY_A" } |-> 5]
item_constants ==
    [n \in { "ITEM_NONE", "ITEM_A", "ITEM_Z" } |->
        CASE n = "ITEM_NONE" -> 0 [] n = "ITEM_A" -> 1 [] n = "ITEM_Z" -> 9]
item_names == <<"None", "Item A">>

\* {v: k for k, v in item_constants.items()}
item_id_to_name ==
    [v \in { item_constants[k] : k \in DOMAIN item_constants } |->
        CHOOSE k \in DOMAIN item_constants : item_constants[k] = v]

\* truth value of a field of a member
Truth(x) ==
    CASE x.type = "NoneType" -> FALSE
      [] x.type \in { "int", "bool" } -> x.v # 0
      [] x.type = "str" -> x.v # ""
      [] x.type = "list" -> x.items # <<>>

type_names ==
    <<"Fighting", "Flying", "Poison", "Ground", "Rock", "Bug", "Ghost", "Steel",
      "Fire", "Water", "Grass", "Electric", "Psychic", "Ice", "Dragon", "Dark">>

\* hp + 2 * atk + 4 * def_iv + 8 * spe + 16 * spa + 32 * spd over the low bits
HiddenPowerValue(ivs) ==
    (ivs[1].v % 2) + 2 * (ivs[2].v % 2) + 4 * (ivs[3].v % 2)
    + 8 * (ivs[5].v % 2) + 16 * (ivs[6].v % 2) + 32 * (ivs[4].v % 2)

HiddenPowerName(hp_type_num) ==
    IF hp_type_num < Len(type_names) THEN type_names[hp_type_num + 1] ELSE "Normal"

get_hidden_power_type(ivs) ==
    IF ivs.type # "list" \/ Len(ivs.items) # 6 THEN "Normal"
    ELSE HiddenPowerName((HiddenPowerValue(ivs.items) * 15) \div 63)

LvlOf(out, mon) ==
    IF "lvl" \in DOMAIN mon THEN DictPut(out, "lvl", mon["lvl"]) ELSE out

SpeciesId(species_constant) ==
    IF species_constant.type = "str" /\ species_constant.v \in DOMAIN species_constants
    THEN PyInt(species_constants[species_constant.v])
    ELSE species_constant
SpeciesOf(out, mon) ==
    IF "species" \in DOMAIN mon
    THEN DictPut(out, "id", SpeciesId(mon["species"]))
    ELSE out

\* the branches of the iv field, in the order the code tests them
IvBranch(out, iv) ==
    IF iv.type = "list" THEN DictPut(out, "iv", iv)
    ELSE IF isinstance_int(iv) /\ iv.v > 0
    THEN DictPut(out, "iv", PyList(Times(iv, 6)))
    ELSE IF iv.type = "bool" /\ iv.v # 0
    THEN DictPut(out, "iv", IntsValue(Times(31, 6)))
    ELSE out
IvOf(out, mon) ==
    IF "iv" \in DOMAIN mon THEN IvBranch(out, mon["iv"]) ELSE out

NatureValue(out, nature_val) ==
    IF nature_val.type = "str" /\ nature_val.v \in DOMAIN NatureLower
    THEN DictPut(out, "nature", PyName(NatureLower[nature_val.v]))
    ELSE IF isinstance_int(nature_val)
    THEN DictPut(out, "nature",
                 IF nature_val.v \in 0..(Len(nature_mapping) - 1)
                 THEN PyName(nature_mapping[nature_val.v + 1])
                 ELSE nature_val)
    ELSE out
NatureOf(out, mon) ==
    IF "nature" \in DOMAIN mon /\ mon["nature"].type # "NoneType"
    THEN NatureValue(out, mon["nature"])
    ELSE out

AbilityValue(out, ability_val) ==
    IF ability_val.type = "str" /\ ability_val.v \in DOMAIN ability_constants
    THEN DictPut(out, "ability", PyList(<<PyInt(ability_constants[ability_val.v])>>))
    ELSE IF isinstance_int(ability_val)
    THEN DictPut(out, "ability", PyList(<<ability_val>>))
    ELSE out
AbilityOf(out, mon) ==
    IF "ability" \in DOMAIN mon /\ Truth(mon["ability"])
    THEN AbilityValue(out, mon["ability"])
    ELSE out

ItemById(item_id, fallback) ==
    IF 0 <= item_id /\ item_id < Len(item_names)
    THEN PyName(item_names[item_id + 1])
    ELSE fallback
ItemValue(out, item_val) ==
    IF item_val.type = "str"
    THEN IF item_val.v # "ITEM_NONE" /\ DOMAIN item_constants # {} /\ item_names # <<>>
         THEN DictPut(out, "item",
                      IF item_val.v \in DOMAIN item_constants
                      THEN ItemById(item_constants[item_val.v], item_val)
                      ELSE item_val)
         ELSE out
    ELSE IF isinstance_int(item_val) /\ item_val.v # 0
    THEN DictPut(out, "item",
                 IF item_names # <<>> /\ 0 <= item_val.v /\ item_val.v < Len(item_names)
                 THEN PyName(item_names[item_val.v + 1])
                 ELSE IF item_val.v \in DOMAIN item_id_to_name
                 THEN PyName(item_id_to_name[item_val.v])
                 ELSE item_val)
    ELSE out
ItemOf(out, mon) ==
    IF "item" \in DOMAIN mon /\ mon["item"].type # "NoneType"
    THEN ItemValue(out, mon["item"])
    ELSE out

\* the loop over mon["moves"]: the ids kept and whether Hidden Power is one
RECURSIVE MoveIds(_, _)
MoveIds(moves, acc) ==
    IF moves = <<>> THEN acc
    ELSE LET move == Head(moves)
         IN  IF move.type = "str" /\ move.v \in DOMAIN move_constants
             THEN IF move_constants[move.v] # 0
                  THEN MoveIds(Tail(moves),
                               [ids |-> Append(acc.ids, PyInt(move_constants[move.v])),
                                hp |-> \/ acc.hp
                                       \/ move.v = "MOVE_HIDDEN_POWER"
                                       \/ move_constants[move.v] = 237])
                  ELSE MoveIds(Tail(moves), acc)
             ELSE IF isinstance_int(move) /\ move.v # 0
             THEN MoveIds(Tail(moves),
                          [ids |-> Append(acc.ids, move),
                           hp |-> acc.hp \/ move.v = 237])
             ELSE MoveIds(Tail(moves), acc)
WithHiddenPower(out, has_hidden_power) ==
    IF has_hidden_power /\ "iv" \in DOMAIN out /\ out["iv"].type = "list"
    THEN DictPut(out, "hpType", PyName(get_hidden_power_type(out["iv"])))
    ELSE out
MovesValue(out, m) ==
    IF m.ids # <<>>
    THEN WithHiddenPower(DictPut(out, "moves", PyList(m.ids)), m.hp)
    ELSE out
MovesOf(out, mon) ==
    IF "moves" \in DOMAIN mon /\ Truth(mon["moves"])
    THEN MovesValue(out, MoveIds(mon["moves"].items, [ids |-> <<>>, hp |-> FALSE]))
    ELSE out

EvValue(out, ev) ==
    IF ev.type = "list" THEN DictPut(out, "ev", ev)
    ELSE IF isinstance_int(ev) /\ ev.v > 0
    THEN DictPut(out, "ev", PyList(Times(ev, 6)))
    ELSE out
EvOf(out, mon) ==
    IF "ev" \in DOMAIN mon /\ Truth(mon["ev"]) THEN EvValue(out, mon["ev"]) ELSE out

PreStatusOf(out, mon) ==
    IF "preStatus" \in DOMAIN mon /\ mon["preStatus"].type # "NoneType"
    THEN DictPut(out, "preStatus", mon["preStatus"])
    ELSE out

\* the body of the loop over party_data["party"]
ConsistentMon(mon) ==
    PreStatusOf(
      EvOf(
        MovesOf(
          ItemOf(
            AbilityOf(
              NatureOf(
                IvOf(SpeciesOf(LvlOf(EmptyDict, mon), mon), mon),
                mon),
              mon),
            mon),
          mon),
        mon),
      mon)

ConsistentParty(party_data) ==
    IF "party" \in DOMAIN party_data
    THEN [i \in 1..Len(party_data.party) |-> ConsistentMon(party_data.party[i])]
    ELSE <<>>

convert_to_consistent_format(parties_data) ==
    [party_name \in DOMAIN parties_data |-> ConsistentParty(parties_data[party_name])]

(***************************************************************************)
(* Trainer parties: the calls                                              *)
(***************************************************************************)
\* data_loader: convert_to_consistent_format(parse_trainer_parties(...), ...)
ConvertParsed ==
    /\ call.op = "parse_trainer_parties"
    /\ ret.kind = "return"
    /\ call' = [op |-> "convert_to_consistent_format", parties_data |-> ret.value]
    /\ ret' = Return(convert_to_consistent_format(ret.value))
    /\ before' = cache
    /\ UNCHANGED <<cache, parsed, pairs, run>>

\* The cache directory as earlier runs left it: empty, or holding an entry of
\* trainer_parties.
InitParty ==
    /\ cache \in { EmptyDir } \cup
                 { [t \in { _pickle_target(PartyFile) } |-> d] : d \in PartyOutputs }
    /\ before = cache
    /\ call = [op |-> "none"]
    /\ ret = NoResult
    /\ parsed = <<>>
    /\ pairs = <<>>
    /\ run = NoRun

NextParty == ParseTrainerParties \/ ConvertParsed

SpecParty == InitParty /\ [][NextParty]_vars

\* members handed to the conversion
IvInputs ==
    { PyBool(TRUE), PyBool(FALSE), PyInt(-1), PyInt(0), PyInt(1), PyInt(31),
      IntsValue(<<31, 31, 31, 31, 31, 31>>), IntsValue(<<0, 1, 2, 3, 4, 5>>),
      IntsValue(<<7>>) }
BareMons ==
    { [k \in { "lvl", "species" } |-> IF k = "lvl" THEN PyInt(lvl) ELSE species] :
        lvl \in { 5, 50 }, species \in { PyName("SPECIES_A"), PyName("SPECIES_Q") } }
WithIv == BareMons \cup { DictPut(m, "iv", iv) : m \in BareMons, iv \in IvInputs }
WithMoves ==
    WithIv \cup { DictPut(m, "moves", PyList(<<PyName("MOVE_HIDDEN_POWER"),
                                               PyName("MOVE_NONE"), PyInt(10)>>)) :
                    m \in WithIv }
Described(m) ==
    DictPut(DictPut(DictPut(DictPut(DictPut(m,
        "nature", PyName("NATURE_TIMID")),
        "ability", PyName("ABILITY_A")),
        "item", PyName("ITEM_A")),
        "ev", PyInt(4)),
        "preStatus", PyName("STATUS1_BURN"))
ConvertMons == WithMoves \cup { Described(m) : m \in WithMoves }
PartiesInputs ==
    { [n \in { "sParty_X" } |-> [name |-> "sParty_X", party |-> p]] :
        p \in SeqsUpTo(ConvertMons, MaxPartySize) }

InitConvert ==
    /\ call \in { [op |-> "input", parties_data |-> pd] : pd \in PartiesInputs }
    /\ ret = NoResult
    /\ cache = EmptyDir
    /\ before = EmptyDir
    /\ parsed = <<>>
    /\ pairs = <<>>
    /\ run = NoRun

ConvertToConsistentFormat ==
    /\ call.op = "input"
    /\ call' = [call EXCEPT !.op = "convert_to_consistent_format"]
    /\ ret' = Return(convert_to_consistent_format(call.parties_data))
    /\ UNCHANGED <<cache, before, parsed, pairs, run>>

NextConvert == ConvertToConsistentFormat

SpecConvert == InitConvert /\ [][NextConvert]_vars

(***************************************************************************)
(* Trainer parties: claims                                                 *)
(***************************************************************************)
\* the declarations a completed call of parse_trainer_parties worked on
PartyDecls == PartyDeclsOf(cache[_pickle_target(PartyFile)])

\* a declaration named sParty_* that has an initializer
IsPartyDecl(decl) ==
    startswith_sParty(decl.name) /\ decl.init.node # "NoneType"

\* one member per struct initializer, in source order, each from its own fields
MembersOf(decl) ==
    LET structs == IF hasattr_exprs(decl.init)
                   THEN SelectSeq(decl.init.exprs, hasattr_exprs)
                   ELSE <<>>
    IN  [i \in 1..Len(structs) |-> Fields(Return(EmptyDict), structs[i].exprs).value]

\* C26: parse_trainer_parties returns, for every sParty_* declaration with an
\* initializer, a party with exactly one member per struct initializer of that
\* declaration, in source order; a declaration without struct initializers
\* has an empty party.
C26_PartyCompleteness ==
    (call.op = "parse_trainer_parties" /\ ret.kind = "return")
        => \A i \in 1..Len(PartyDecls) :
               IsPartyDecl(PartyDecls[i])
                   => /\ PartyDecls[i].name \in DOMAIN ret.value
                      /\ ret.value[PartyDecls[i].name].party = MembersOf(PartyDecls[i])

\* the perfect spread
PerfectSpread == IntsValue(Times(31, 6))

\* what the conversion made of the iv of member i of a party
IvConverted(mon, out) ==
    /\ mon["iv"] = PyBool(TRUE)
          => ("iv" \in DOMAIN out /\ out["iv"] = PerfectSpread)
    /\ mon["iv"].type = "list"
          => ("iv" \in DOMAIN out /\ out["iv"] = mon["iv"])
    /\ (mon["iv"].type = "int" /\ mon["iv"].v > 0)
          => ("iv" \in DOMAIN out /\ out["iv"] = PyList(Times(mon["iv"], 6)))

\* C29: convert_to_consistent_format turns an iv of True into the perfect
\* spread [31, 31, 31, 31, 31, 31], copies a list unchanged and turns a
\* positive integer n into [n] * 6.
C29_BooleanIvMarker ==
    call.op = "convert_to_consistent_format"
        => \A n \in DOMAIN call.parties_data :
               \A i \in 1..Len(call.parties_data[n].party) :
                   "iv" \in DOMAIN call.parties_data[n].party[i]
                       => IvConverted(call.parties_data[n].party[i], ret.value[n][i])

(***************************************************************************)
(* Learnsets: parse_level_up_learnset and parse_teachable_learnset read    *)
(* the entries of one declaration up to the entry whose move is 0xFFFF.    *)
(***************************************************************************)
MaxEntries == 3    \* longest initializer list of a learnset declaration

\* seq[i] for a Python list: indices count from 0, negative ones from the end
PyIndex(seq, i) ==
    IF 0 <= i /\ i < Len(seq) THEN Return(seq[i + 1])
    ELSE IF i < 0 /\ -i <= Len(seq) THEN Return(seq[Len(seq) + i + 1])
    ELSE Raise("IndexError")

\* porydex.common.name_key over the names of this model
name_key ==
    [n \in { "", "Tackle", "Cut", "Double-Edge", "Double Edge" } |->
        CASE n = "" -> ""
          [] n = "Tackle" -> "tackle"
          [] n = "Cut" -> "cut"
          [] n \in { "Double-Edge", "Double Edge" } -> "doubleedge"]

\* learnset[key].append(level) on a defaultdict(list)
AppendUnder(learnset, key, level) ==
    DictPut(learnset, key,
            IF key \in DOMAIN learnset THEN Append(learnset[key], level)
            ELSE <<level>>)

\* raw_move_id_to_move_names_index[raw_move_id], or raw_move_id
MoveNamesIndex(raw_move_id, index_map) ==
    IF DOMAIN index_map # {} /\ raw_move_id \in DOMAIN index_map
    THEN index_map[raw_move_id]
    ELSE raw_move_id

\* the entry is kept when its index lies in move_names and names a move
Learned(learnset, name, level) ==
    IF name.kind = "raise" THEN name
    ELSE IF name.value # "" THEN Return(AppendUnder(learnset, name_key[name.value], level))
    ELSE Return(learnset)
LevelUpEntry(learnset, move_names_index, level, move_names) ==
    IF move_names_index < Len(move_names)
    THEN Learned(learnset, PyIndex(move_names, move_names_index), level)
    ELSE Return(learnset)

\* the loop of parse_level_up_learnset from entry i on
RECURSIVE LevelUpFrom(_, _, _, _, _)
LevelUpNext(r, entry_inits, i, move_names, index_map) ==
    IF r.kind = "raise" THEN r
    ELSE LevelUpFrom(entry_inits, i + 1, r.value, move_names, index_map)
LevelUpLevel(raw_move_id, level, entry_inits, i, learnset, move_names, index_map) ==
    IF level.kind = "raise" THEN level
    ELSE LevelUpNext(LevelUpEntry(learnset, MoveNamesIndex(raw_move_id, index_map),
                                  level.value, move_names),
                     entry_inits, i, move_names, index_map)
LevelUpMove(raw_move_id, entry_inits, i, learnset, move_names, index_map) ==
    IF raw_move_id.kind = "raise" THEN raw_move_id
    ELSE IF raw_move_id.value = 65535 THEN Return(learnset)
    ELSE LevelUpLevel(raw_move_id.value, extract_int(entry_inits[i].exprs[2].expr),
                      entry_inits, i, learnset, move_names, index_map)
LevelUpFrom(entry_inits, i, learnset, move_names, index_map) ==
    IF i > Len(entry_inits) THEN Return(learnset)
    ELSE LevelUpMove(extract_int(entry_inits[i].exprs[1].expr),
                     entry_inits, i, learnset, move_names, index_map)

parse_level_up_learnset(decl, move_names, index_map) ==
    LevelUpFrom(decl.init.exprs, 1, EmptyDict, move_names, index_map)

RECURSIVE TeachableFrom(_, _, _, _, _)
TeachableNext(r, entry_inits, i, move_names, tm_moves) ==
    IF r.kind = "raise" THEN r
    ELSE TeachableFrom(entry_inits, i + 1, r.value, move_names, tm_moves)

\* learnset['m'].append(...) or learnset['t'].append(...)
Taught(learnset, move_name, tm_moves) ==
    IF move_name.kind = "raise" THEN move_name
    ELSE IF \E j \in 1..Len(tm_moves) : tm_moves[j] = move_name.value
    THEN Return([learnset EXCEPT !.m = Append(@, name_key[move_name.value])])
    ELSE Return([learnset EXCEPT !.t = Append(@, name_key[move_name.value])])

\* the entry whose move is 0xFFFF is passed over and the loop goes on
TeachableMove_sentinel_skipped(move, entry_inits, i, learnset, move_names, tm_moves) ==
    IF move.kind = "raise" THEN move
    ELSE IF move.value = 65535
    THEN TeachableFrom(entry_inits, i + 1, learnset, move_names, tm_moves)
    ELSE TeachableNext(Taught(learnset, PyIndex(move_names, move.value), tm_moves),
                       entry_inits, i, move_names, tm_moves)

\* the loop of parse_teachable_learnset from entry i on
TeachableMove(move, entry_inits, i, learnset, move_names, tm_moves) ==
    IF move.kind = "raise" THEN move
    ELSE IF move.value = 65535 THEN Return(learnset)
    ELSE TeachableNext(Taught(learnset, PyIndex(move_names, move.value), tm_moves),
                       entry_inits, i, move_names, tm_moves)
TeachableFrom(entry_inits, i, learnset, move_names, tm_moves) ==
    IF i > Len(entry_inits) THEN Return(learnset)
    ELSE TeachableMove(extract_int(entry_inits[i]), entry_inits, i, learnset,
                       move_names, tm_moves)

parse_teachable_learnset(decl, move_names, tm_moves) ==
    TeachableFrom(decl.init.exprs, 1, [m |-> <<>>, t |-> <<>>], move_names, tm_moves)

\* the arguments of the two parsers
MoveNames == <<"", "Tackle", "Cut", "", "Double-Edge", "Double Edge">>
TmMoves == <<"Cut", "Double Edge">>
IndexMaps == { EmptyDict, [raw \in { 9 } |-> 1] }
Sentinel == Constant(<<"0", "x", "F", "F", "F", "F">>)
MoveExprs ==
    { Constant(<<"1">>), Constant(<<"2">>), Constant(<<"3">>), Constant(<<"4">>),
      Constant(<<"5">>), Constant(<<"9">>), UnaryOp("-", Constant(<<"1">>)),
      UnaryOp("+", Constant(<<"1">>)), Sentinel }
LevelExprs == { Constant(<<"7">>), Constant(<<"0">>) }
LevelUpMoves ==
    { Constant(<<"1">>), Constant(<<"3">>), Constant(<<"4">>), Constant(<<"5">>),
      Constant(<<"9">>), UnaryOp("+", Constant(<<"1">>)), Sentinel }
LevelUpEntries ==
    { InitList(<<NamedInitializer("move", m), NamedInitializer("level", l)>>) :
        m \in LevelUpMoves, l \in LevelExprs }
LearnsetDecl(name, entries) == Decl(name, "ArrayDecl", InitList(entries))

InitLearnset ==
    /\ call \in { [op |-> "input", parser |-> "parse_teachable_learnset",
                   decl |-> LearnsetDecl("sATeachableLearnset", e),
                   index_map |-> EmptyDict] :
                    e \in SeqsUpTo(MoveExprs, MaxEntries) }
             \cup
                 { [op |-> "input", parser |-> "parse_level_up_learnset",
                    decl |-> LearnsetDecl("sALevelUpLearnset", e),
                    index_map |-> im] :
                     e \in SeqsUpTo(LevelUpEntries, MaxEntries), im \in IndexMaps }
    /\ ret = NoResult
    /\ cache = EmptyDir
    /\ before = EmptyDir
    /\ parsed = <<>>
    /\ pairs = <<>>
    /\ run = NoRun

ParseLevelUpLearnset ==
    /\ call.op = "input"
    /\ call.parser = "parse_level_up_learnset"
    /\ call' = [call EXCEPT !.op = "parse_level_up_learnset"]
    /\ ret' = parse_level_up_learnset(call.decl, MoveNames, call.index_map)
    /\ UNCHANGED <<cache, before, parsed, pairs, run>>

ParseTeachableLearnset ==
    /\ call.op = "input"
    /\ call.parser = "parse_teachable_learnset"
    /\ call' = [call EXCEPT !.op = "parse_teachable_learnset"]
    /\ ret' = parse_teachable_learnset(call.decl, MoveNames, TmMoves)
    /\ UNCHANGED <<cache, before, parsed, pairs, run>>

NextLearnset == ParseLevelUpLearnset \/ ParseTeachableLearnset

SpecLearnset == InitLearnset /\ [][NextLearnset]_vars

(***************************************************************************)
(* Learnsets: claims                                                       *)
(***************************************************************************)
\* the entries of the declaration of the last call, and their move ids
EntriesOfCall == call.decl.init.exprs
MoveIdOf(entry) ==
    IF call.op = "parse_teachable_learnset" THEN extract_int(entry)
    ELSE extract_int(entry.exprs[1].expr)

\* the position of the first entry whose move id is 0xFFFF, or one past the end
SentinelAt ==
    CHOOSE k \in 1..(Len(EntriesOfCall) + 1) :
        /\ k = Len(EntriesOfCall) + 1 \/ MoveIdOf(EntriesOfCall[k]) = Return(65535)
        /\ \A j \in 1..(k - 1) : MoveIdOf(EntriesOfCall[j]) # Return(65535)

\* the index into the move names of entry j
IndexOfEntry(j) ==
    IF call.op = "parse_teachable_learnset" THEN MoveIdOf(EntriesOfCall[j]).value
    ELSE MoveNamesIndex(MoveIdOf(EntriesOfCall[j]).value, call.index_map)

\* every entry before the sentinel has a move id and a level that evaluate
\* and an index that the list of move names can be asked for
BeforeSentinelReadable ==
    \A j \in 1..(SentinelAt - 1) :
        /\ MoveIdOf(EntriesOfCall[j]).kind = "return"
        /\ IndexOfEntry(j) >= -Len(MoveNames)
        /\ call.op = "parse_teachable_learnset" => IndexOfEntry(j) < Len(MoveNames)
        /\ call.op = "parse_level_up_learnset"
              => extract_int(EntriesOfCall[j].exprs[2].expr).kind = "return"

NameOfEntry(j) == PyIndex(MoveNames, IndexOfEntry(j)).value
IsTm(name) == \E i \in 1..Len(TmMoves) : TmMoves[i] = name

\* the keys of the entries before the sentinel that are (tm) or are not TM/HM
\* moves, in source order
RECURSIVE TeachableKeys(_, _)
TeachableKeys(j, tm) ==
    IF j = 0 THEN <<>>
    ELSE IF IsTm(NameOfEntry(j)) = tm
    THEN Append(TeachableKeys(j - 1, tm), name_key[NameOfEntry(j)])
    ELSE TeachableKeys(j - 1, tm)

\* entry j names a move: its index has a non-empty name
NamesMove(j) ==
    /\ IndexOfEntry(j) < Len(MoveNames)
    /\ NameOfEntry(j) # ""

\* the levels of the entries before the sentinel whose move has the key,
\* in source order
RECURSIVE LevelsUnder(_, _)
LevelsUnder(j, key) ==
    IF j = 0 THEN <<>>
    ELSE IF NamesMove(j) /\ name_key[NameOfEntry(j)] = key
    THEN Append(LevelsUnder(j - 1, key),
                extract_int(EntriesOfCall[j].exprs[2].expr).value)
    ELSE LevelsUnder(j - 1, key)

\* C28: both learnset parsers stop at the first entry whose move id is 0xFFFF;
\* the teachable moves before it are each in exactly one of the lists m (TM/HM
\* moves) and t (the others), in source order; the level-up entries before it
\* whose index has a non-empty name each append their level under the key of
\* that name, and nothing else is in the result.
C28_LearnsetSentinel ==
    /\ (call.op = "parse_teachable_learnset" /\ BeforeSentinelReadable)
          => ret = Return([m |-> TeachableKeys(SentinelAt - 1, TRUE),
                           t |-> TeachableKeys(SentinelAt - 1, FALSE)])
    /\ (call.op = "parse_level_up_learnset" /\ BeforeSentinelReadable)
          => /\ ret.kind = "return"
             /\ DOMAIN ret.value
                    = { name_key[NameOfEntry(j)] :
                          j \in { i \in 1..(SentinelAt - 1) : NamesMove(i) } }
             /\ \A key \in DOMAIN ret.value :
                    ret.value[key] = LevelsUnder(SentinelAt - 1, key)

\* a teachable learnset with a TM move before the sentinel and a move after it
C28_Witness ==
    /\ call.op = "parse_teachable_learnset"
    /\ SentinelAt = 2
    /\ Len(EntriesOfCall) = 3
    /\ EntriesOfCall[3] = Constant(<<"1">>)
    /\ ret = Return([m |-> <<"cut">>, t |-> <<>>])

(***************************************************************************)
(* Species constants: parse_species_constants reads the numeric SPECIES_*  *)
(* definitions of a header and resolves the aliases among them.           *)
(***************************************************************************)
MaxAliases == 3    \* most alias definitions of the header

\* the header: its numeric definitions and, in source order, its aliases
NumericDefines == [n \in { "SPECIES_ONE", "SPECIES_TWO" } |->
                      IF n = "SPECIES_ONE" THEN 1 ELSE 2]
AliasNames == { "SPECIES_A", "SPECIES_B", "SPECIES_C", "SPECIES_D" }
AliasTargets == AliasNames \cup { "SPECIES_ONE", "SPECIES_UNDEFINED" }

\* the alias definitions of a header: every name is defined once
RECURSIVE AliasDefines(_)
AliasDefines(n) ==
    IF n = 0 THEN { <<>> }
    ELSE LET shorter == AliasDefines(n - 1)
         IN  shorter \cup
             { Append(d, <<a, t>>) :
                 d \in { x \in shorter : Len(x) = n - 1 },
                 a \in AliasNames, t \in AliasTargets }
Defined(d) == { d[i][1] : i \in 1..Len(d) }
Headers ==
    { d \in AliasDefines(MaxAliases) : Cardinality(Defined(d)) = Len(d) }

\* the dict aliases, in insertion order
Keys(aliases) == { aliases[i][1] : i \in 1..Len(aliases) }
Lookup(aliases, name) ==
    aliases[CHOOSE i \in 1..Len(aliases) : aliases[i][1] = name][2]
\* del aliases[name]
RECURSIVE Deleted(_, _)
Deleted(aliases, name) ==
    IF aliases = <<>> THEN <<>>
    ELSE IF Head(aliases)[1] = name THEN Tail(aliases)
    ELSE <<Head(aliases)>> \o Deleted(Tail(aliases), name)
\* aliases[name] = target
Assigned(aliases, name, target) ==
    [i \in 1..Len(aliases) |->
        IF aliases[i][1] = name THEN <<name, target>> ELSE aliases[i]]

\* an alias whose target is unknown is entered with the value 0
ResolveOne_unknown_as_zero(st, alias_name, target_name) ==
    IF target_name \in DOMAIN st.constants
    THEN [constants |-> DictPut(st.constants, alias_name, st.constants[target_name]),
          aliases |-> Deleted(st.aliases, alias_name),
          resolved_any |-> TRUE]
    ELSE IF target_name \in Keys(st.aliases)
    THEN [st EXCEPT !.aliases = Assigned(@, alias_name, Lookup(st.aliases, target_name)),
                    !.resolved_any = TRUE]
    ELSE [st EXCEPT !.constants = DictPut(@, alias_name, 0)]

\* the body of the loop over list(aliases.items())
ResolveOne(st, alias_name, target_name) ==
    IF target_name \in DOMAIN st.constants
    THEN [constants |-> DictPut(st.constants, alias_name, st.constants[target_name]),
          aliases |-> Deleted(st.aliases, alias_name),
          resolved_any |-> TRUE]
    ELSE IF target_name \in Keys(st.aliases)
    THEN [st EXCEPT !.aliases = Assigned(@, alias_name, Lookup(st.aliases, target_name)),
                    !.resolved_any = TRUE]
    ELSE st

\* one pass: the loop over the items the dict had when the pass began
RECURSIVE PassFrom(_, _, _)
PassFrom(items, i, st) ==
    IF i > Len(items) THEN st
    ELSE PassFrom(items, i + 1, ResolveOne(st, items[i][1], items[i][2]))

ResolvePassOf(constants, aliases) ==
    PassFrom(aliases, 1,
             [constants |-> constants, aliases |-> aliases, resolved_any |-> FALSE])

InitSpecies ==
    /\ call \in { [op |-> "input", header |-> d, found |-> f] :
                    d \in Headers, f \in BOOLEAN }
    /\ ret = NoResult
    /\ cache = EmptyDir
    /\ before = EmptyDir
    /\ parsed = <<>>
    /\ pairs = <<>>
    /\ run = NoRun

\* the header is read and its definitions are collected; a header that is
\* not found leaves constants empty
ReadHeader ==
    /\ call.op = "input"
    /\ call' = [op |-> "parse_species_constants", header |-> call.header,
                found |-> call.found,
                pc |-> IF call.found THEN "resolve" ELSE "return",
                passes |-> 0,
                constants |-> IF call.found THEN NumericDefines ELSE EmptyDict,
                aliases |-> IF call.found THEN call.header ELSE <<>>]
    /\ UNCHANGED <<ret, cache, before, parsed, pairs, run>>

\* the state after a pass: the loop ends when nothing was resolved or after
\* the tenth pass
AfterPass(st) ==
    [call EXCEPT !.constants = st.constants,
                 !.aliases = st.aliases,
                 !.passes = @ + 1,
                 !.pc = IF st.resolved_any /\ call.passes + 1 < 10
                        THEN "resolve" ELSE "return"]

\* one iteration of `for _ in range(10)`
ResolvePass ==
    /\ call.op = "parse_species_constants"
    /\ call.pc = "resolve"
    /\ call' = AfterPass(ResolvePassOf(call.constants, call.aliases))
    /\ UNCHANGED <<ret, cache, before, parsed, pairs, run>>

ReturnConstants ==
    /\ call.op = "parse_species_constants"
    /\ call.pc = "return"
    /\ call' = [call EXCEPT !.pc = "done"]
    /\ ret' = Return(call.constants)
    /\ UNCHANGED <<cache, before, parsed, pairs, run>>

NextSpecies == ReadHeader \/ ResolvePass \/ ReturnConstants

SpecSpecies == InitSpecies /\ [][NextSpecies]_vars

\* the numeric constant at the end of the alias chain of a name, if the chain
\* reaches one within `fuel` steps
RECURSIVE ChainEnd(_, _, _)
ChainEnd(header, name, fuel) ==
    IF name \in DOMAIN NumericDefines THEN Return(NumericDefines[name])
    ELSE IF name \in Keys(header) /\ fuel > 0
    THEN ChainEnd(header, Lookup(header, name), fuel - 1)
    ELSE Raise("KeyError")

\* C30: the resolution loop of parse_species_constants runs at most 10
\* passes; every alias in the returned map has the value of the numeric
\* constant at the end of its alias chain, and an alias whose chain reaches no
\* numeric constant is not in the returned map.
C30_AliasResolution ==
    call.op = "parse_species_constants"
        => /\ call.passes <= 10
           /\ call.pc = "done"
                 => \A a \in Keys(call.header) :
                        a \in DOMAIN ret.value
                            => ChainEnd(call.header, a, Len(call.header))
                                   = Return(ret.value[a])

\* a header with a chain of three aliases that ends in a numeric constant
\* beside a self-referential alias: the chain is resolved, the cycle is not
C30_Witness ==
    /\ call.op = "parse_species_constants"
    /\ call.pc = "done"
    /\ call.header = <<<<"SPECIES_A", "SPECIES_B">>, <<"SPECIES_B", "SPECIES_ONE">>,
                       <<"SPECIES_C", "SPECIES_C">>>>
    /\ call.passes = 10
    /\ DOMAIN ret.value = { "SPECIES_ONE", "SPECIES_TWO", "SPECIES_A", "SPECIES_B" }

====
